---------------------------- MODULE Spec2Model ----------------------------
(***************************************************************************)
(* Loggy: an intercepting proxy for analytics traffic (Go loggy-proxy and  *)
(* the Node proxy-server-mitm.js), its HTTP control API and the            *)
(* native-messaging supervisor.                                            *)
(*                                                                         *)
(* Text is modelled as a sequence of one-character strings (hosts, paths,  *)
(* globs), JSON paths as sequences of tokens, JSON values as tagged        *)
(* records.                                                                *)
(***************************************************************************)
EXTENDS Integers, Sequences, FiniteSets, TLC

VARIABLES
    \* ---- source matching (pure functions applied to drawn inputs)
    mImpl,            \* "go" | "js": which implementation evaluates the match
    mSources,         \* the registry the match runs against
    mUrl,             \* the URL last matched (or NoUrl)
    mResult,          \* index of the returned source, 0 = nil
    \* ---- the proxy and its control API
    pImpl,            \* "go" (loggy-proxy) | "js" (proxy-server-mitm.js)
    sources,          \* the source registry, in iteration order
    capturedEvents,   \* the event buffer (go: oldest first, js: newest first)
    unmatchedDomains, \* go: map host -> count; js: Map entries in insertion order
    configFile,       \* js: ids last written to proxy-sources.json
    handlers,         \* per in-flight proxied request: where its handler stands
    evq,              \* the GET /events handler
    clr,              \* the POST /clear handler
    sync,             \* the last POST /sources: its status and the list last accepted
    srcResp,          \* the last GET /sources response
    opsLeft,          \* requests still to come, proxied and control API together
    \* ---- the native-messaging host and the proxy child it supervises
    frames,           \* kinds of the frames read from stdin so far
    output,           \* response frames written to stdout, each with its request number
    hostPc,           \* where the host loop stands
    hostResp,         \* the response the current handler has built
    startPid,         \* cmd.Process.Pid of the startProxy in progress
    pidFile,          \* content of ~/.loggy-proxy/.proxy.pid, 0 = no file
    children,         \* per pid: "none" | "starting" | "serving" | "dead"
    termed,           \* pids with a SIGTERM delivered and not yet acted on
    portHolder,       \* pid listening on the proxy port, 0 = free
    \* ---- the base-domain function (a pure function applied to drawn hosts)
    bImpl,            \* "go" | "js": which implementation computes the base domain
    bHost,            \* the host drawn
    bBase,            \* the results so far: of the host, then of that result
    \* ---- the CA material on disk (certs/ca.go)
    certFile,         \* ~/.loggy-proxy/certs/ca.pem: what it holds, gen 0 = no file
    keyFile,          \* ~/.loggy-proxy/certs/ca-key.pem, likewise
    caGen,            \* key pairs generated so far
    caCalls,          \* calls of EnsureCA and TrustCert so far
    caErr,            \* what the last call returned: "none" yet | "nil" | "error"
    caFirst,          \* the files as the first EnsureCA that returned nil left them
    \* ---- the timestamp of a captured event (a function of the event and the clock)
    tImpl,            \* "go" (parser.go) | "js" (parsers.js)
    tStamp,           \* the number the posted event holds as its timestamp
    tNow,             \* the clock when the event is captured, in milliseconds
    tOut,             \* the timestamp of the captured event, <<>> = not captured yet
    \* ---- path resolution (a pure function applied to drawn documents and paths)
    rImpl,            \* "go" (parser.go getNestedValue) | "js" (parsers.js getNestedValue)
    rData,            \* the decoded JSON document
    rPath,            \* the path expression, tokenised
    rOut,             \* what resolution returned, <<>> = not resolved yet
    \* ---- url_pattern matching (sources.go, a pure function applied to drawn inputs)
    gPath,            \* the path of the URL
    gPattern,         \* the url_pattern of the source, <<>> = none
    gOut,             \* <<b>>: the pattern let the path pass or not; <<>> = not asked yet
    \* ---- event extraction (pure functions applied to drawn decoded payloads)
    xImpl,            \* "go" (parser.go parsePayload) | "js" (parsers.js parsePayload)
    xPayload,         \* the decoded payload
    xEvents           \* <<events>>: the events extracted; <<>> = not parsed yet

matchVars == <<mImpl, mSources, mUrl, mResult>>
proxyVars == <<pImpl, sources, capturedEvents, unmatchedDomains, configFile, handlers,
               evq, clr, sync, srcResp, opsLeft>>
hostVars == <<frames, output, hostPc, hostResp, startPid, pidFile, children, termed,
              portHolder>>
baseVars == <<bImpl, bHost, bBase>>
certVars == <<certFile, keyFile, caGen, caCalls, caErr, caFirst>>
timeVars == <<tImpl, tStamp, tNow, tOut>>
pathVars == <<rImpl, rData, rPath, rOut>>
globVars == <<gPath, gPattern, gOut>>
extractVars == <<xImpl, xPayload, xEvents>>
restVars == <<baseVars, certVars, timeVars, pathVars, globVars, extractVars>>
vars == <<matchVars, proxyVars, hostVars, restVars>>

----------------------------------------------------------------------------
(* Text helpers                                                            *)

Digits == {"0","1","2","3","4","5","6","7","8","9"}

Upper == <<"A","B","C","D","E","F","G","H","I","J","K","L","M",
           "N","O","P","Q","R","S","T","U","V","W","X","Y","Z">>
Lower == <<"a","b","c","d","e","f","g","h","i","j","k","l","m",
           "n","o","p","q","r","s","t","u","v","w","x","y","z">>

ToLowerCh(c) ==
    IF \E i \in 1..26 : Upper[i] = c
    THEN Lower[CHOOSE i \in 1..26 : Upper[i] = c]
    ELSE c

\* strings.ToLower / String.prototype.toLowerCase
ToLower(s) == [i \in 1..Len(s) |-> ToLowerCh(s[i])]

LastN(s, n) == IF Len(s) <= n THEN s ELSE SubSeq(s, Len(s) - n + 1, Len(s))

RECURSIVE SplitFrom(_, _, _, _)
SplitFrom(s, sep, i, cur) ==
    IF i > Len(s) THEN <<cur>>
    ELSE IF s[i] = sep THEN <<cur>> \o SplitFrom(s, sep, i + 1, <<>>)
    ELSE SplitFrom(s, sep, i + 1, Append(cur, s[i]))

\* strings.Split(s, sep) / String.prototype.split(sep) for a one-character sep
Split(s, sep) == SplitFrom(s, sep, 1, <<>>)

RECURSIVE Join(_, _)
\* strings.Join(parts, sep) / Array.prototype.join(sep)
Join(parts, sep) ==
    IF Len(parts) = 0 THEN <<>>
    ELSE IF Len(parts) = 1 THEN parts[1]
    ELSE parts[1] \o <<sep>> \o Join(Tail(parts), sep)

\* strings.Contains / String.prototype.includes
Contains(s, sub) ==
    \E i \in 1..(Len(s) - Len(sub) + 1) : SubSeq(s, i, i + Len(sub) - 1) = sub

RECURSIVE ReplaceAll2(_, _, _)
\* strings.ReplaceAll(s, "cc", "c") for a doubled character c, left to right
ReplaceAll2(s, c, i) ==
    IF i > Len(s) THEN <<>>
    ELSE IF i < Len(s) /\ s[i] = c /\ s[i + 1] = c
         THEN <<c>> \o ReplaceAll2(s, c, i + 2)
         ELSE <<s[i]>> \o ReplaceAll2(s, c, i + 1)

----------------------------------------------------------------------------
(* Sources: loggy-proxy/internal/config/sources.go, config/source-config.js *)

NoPath == <<>>

Source(id, name, enabled, domain, urlPattern, eventNamePath, batchPath) ==
    [id |-> id, name |-> name, enabled |-> enabled, domain |-> domain,
     urlPattern |-> urlPattern, eventNamePath |-> eventNamePath,
     batchPath |-> batchPath, fieldMappings |-> <<>>]

RECURSIVE PathMatch(_, _)
\* path.Match(pattern, name) for patterns of literals, '?' and '*':
\* '*' matches any sequence of non-'/' characters, '?' one non-'/' character
PathMatch(pattern, name) ==
    IF Len(pattern) = 0 THEN Len(name) = 0
    ELSE IF pattern[1] = "*"
    THEN \E k \in 0..Len(name) :
            /\ \A j \in 1..k : name[j] # "/"
            /\ PathMatch(Tail(pattern), SubSeq(name, k + 1, Len(name)))
    ELSE /\ Len(name) > 0
         /\ \/ pattern[1] = "?" /\ name[1] # "/"
            \/ pattern[1] = name[1]
         /\ PathMatch(Tail(pattern), Tail(name))

matchGlob(str, pattern) ==
    \/ PathMatch(pattern, str)
    \/ /\ Contains(pattern, <<"*","*">>)
       /\ PathMatch(ReplaceAll2(pattern, "*", 1), str)

\* a base-domain function that drops the first label of a host
dropFirstLabel(host) ==
    LET parts == Split(ToLower(host), ".")
    IN  IF Len(parts) >= 2 THEN Join(Tail(parts), ".") ELSE ToLower(host)

\* extractBaseDomain: the last two labels of the lower-cased host
extractBaseDomain(host) ==
    LET h == ToLower(host)
        parts == Split(h, ".")
    IN  IF Len(parts) >= 2 THEN Join(LastN(parts, 2), ".") ELSE h

\* A URL after url.Parse / new URL: the parts the matchers read
Url(scheme, host, path, query) ==
    [scheme |-> scheme, host |-> host, path |-> path, query |-> query]

Matches(s, u) ==
    /\ s.enabled
    /\ extractBaseDomain(u.host) = ToLower(s.domain)
    /\ (s.urlPattern # <<>> => matchGlob(u.path, s.urlPattern))

RECURSIVE findFrom(_, _, _)
findFrom(srcs, u, i) ==
    IF i > Len(srcs) THEN 0
    ELSE IF Matches(srcs[i], u) THEN i
    ELSE findFrom(srcs, u, i + 1)

\* index into sources of the returned *Source, 0 for nil
findMatchingSource(srcs, u) == findFrom(srcs, u, 1)

\* SourceConfig.extractBaseDomain (config/source-config.js)
IsIPv4(host) ==
    LET parts == Split(host, ".")
    IN  /\ Len(parts) = 4
        /\ \A i \in 1..4 : Len(parts[i]) > 0 /\ \A j \in 1..Len(parts[i]) : parts[i][j] \in Digits

specialTLDs == { <<"c","o",".","u","k">>, <<"c","o","m",".","a","u">>, <<"c","o",".","n","z">>,
                 <<"c","o",".","j","p">>, <<"c","o","m",".","b","r">> }

JsExtractBaseDomain(hostname) ==
    IF Len(hostname) = 0 THEN <<>>
    ELSE LET h0 == Split(hostname, ":")[1]
             parts == Split(ToLower(h0), ".")
             lastTwo == Join(LastN(parts, 2), ".")
         IN  IF IsIPv4(h0) THEN h0
             ELSE IF lastTwo \in specialTLDs /\ Len(parts) > 2 THEN Join(LastN(parts, 3), ".")
             ELSE IF Len(parts) >= 2 THEN Join(LastN(parts, 2), ".")
             ELSE h0

\* new URL(url).hostname lower-cases the host
JsExtractBaseDomainFromUrl(u) == JsExtractBaseDomain(ToLower(u.host))

\* new SourceConfig(id, config): keeps id, name, enabled, domain, fieldMappings,
\* createdBy, stats; a urlPattern, eventNamePath or batchPath of config is not kept
SourceConfig(id, config) ==
    [id |-> id, name |-> config.name, enabled |-> config.enabled, domain |-> config.domain,
     fieldMappings |-> config.fieldMappings,
     createdBy |-> IF "createdBy" \in DOMAIN config THEN config.createdBy ELSE "system",
     eventsCapture |-> 0]

JsMatches(s, u) ==
    /\ s.enabled
    /\ Len(s.domain) # 0
    /\ JsExtractBaseDomainFromUrl(u) = ToLower(s.domain)

RECURSIVE jsFindFrom(_, _, _)
jsFindFrom(srcs, u, i) ==
    IF i > Len(srcs) THEN 0
    ELSE IF srcs[i].enabled /\ JsMatches(srcs[i], u) THEN i
    ELSE jsFindFrom(srcs, u, i + 1)

\* ConfigManagerNode.findSourceForUrl over the Map in insertion order; 0 for null
findSourceForUrl(srcs, u) == jsFindFrom(srcs, u, 1)


----------------------------------------------------------------------------
(* Texts used as inputs and in the seeded registries                        *)

D_api_segment_io == <<"a","p","i",".","s","e","g","m","e","n","t",".","i","o">>
D_segment_io == <<"s","e","g","m","e","n","t",".","i","o">>
D_google_analytics_com == <<"g","o","o","g","l","e","-","a","n","a","l","y","t","i","c","s",".","c","o","m">>
D_api_amplitude_com == <<"a","p","i",".","a","m","p","l","i","t","u","d","e",".","c","o","m">>
D_api_mixpanel_com == <<"a","p","i",".","m","i","x","p","a","n","e","l",".","c","o","m">>
D_alb_reddit_com == <<"a","l","b",".","r","e","d","d","i","t",".","c","o","m">>
D_heapanalytics_com == <<"h","e","a","p","a","n","a","l","y","t","i","c","s",".","c","o","m">>
D_app_posthog_com == <<"a","p","p",".","p","o","s","t","h","o","g",".","c","o","m">>
D_rudderstack_com == <<"r","u","d","d","e","r","s","t","a","c","k",".","c","o","m">>
D_reddit_com == <<"r","e","d","d","i","t",".","c","o","m">>
D_pie_org == <<"p","i","e",".","o","r","g">>
D_joinhoney_com == <<"j","o","i","n","h","o","n","e","y",".","c","o","m">>
D_openai_com == <<"o","p","e","n","a","i",".","c","o","m">>
D_grammarly_com == <<"g","r","a","m","m","a","r","l","y",".","c","o","m">>
D_example_com == <<"e","x","a","m","p","l","e",".","c","o","m">>
D_example_co_uk == <<"e","x","a","m","p","l","e",".","c","o",".","u","k">>
D_Example_COM == <<"E","x","a","m","p","l","e",".","C","O","M">>
D_127_0_0_1 == <<"1","2","7",".","0",".","0",".","1">>
H_www_google_analytics_com == <<"w","w","w",".","g","o","o","g","l","e","-","a","n","a","l","y","t","i","c","s",".","c","o","m">>
H_shop_example_co_uk == <<"s","h","o","p",".","e","x","a","m","p","l","e",".","c","o",".","u","k">>
H_WWW_Example_com == <<"W","W","W",".","E","x","a","m","p","l","e",".","c","o","m">>
H_localhost == <<"l","o","c","a","l","h","o","s","t">>
P_ga == <<"/","*","/","c","o","l","l","e","c","t","*">>
P_gamp == <<"/","m","p","/","c","o","l","l","e","c","t","*">>
P_v1 == <<"/","v","1","/","*">>
P_rp == <<"/","r","p",".","g","i","f","*">>
P_api_glob == <<"/","a","p","i","/","*","*">>
U_v1_batch == <<"/","v","1","/","b","a","t","c","h">>
U_mp_collect == <<"/","m","p","/","c","o","l","l","e","c","t">>
U_api_v1_track == <<"/","a","p","i","/","v","1","/","t","r","a","c","k">>
U_rp_gif == <<"/","r","p",".","g","i","f">>
U_index == <<"/","i","n","d","e","x",".","h","t","m","l">>
Q_measurement == <<"m","e","a","s","u","r","e","m","e","n","t","_","i","d","=","G","-","1">>

\* JSON paths, tokenised: keys, ".", "[", "]", index digits
JP_en == <<"en">>
JP_events0name == <<"events", "[", "0", "]", ".", "name">>
JP_events == <<"events">>
JP_batch == <<"batch">>
JP_event == <<"event">>
JP_a == <<"a">>
JP_b == <<"b">>

\* config.GetDefaultSources()
GetDefaultSources ==
    << Source("google-analytics", "Google Analytics", TRUE, D_google_analytics_com, P_ga, JP_en, NoPath),
       Source("google-analytics-mp", "Google Analytics (MP)", TRUE, D_google_analytics_com, P_gamp, JP_events0name, JP_events),
       Source("segment", "Segment", TRUE, D_api_segment_io, P_v1, NoPath, JP_batch),
       Source("amplitude", "Amplitude", TRUE, D_api_amplitude_com, <<>>, NoPath, JP_events),
       Source("mixpanel", "Mixpanel", TRUE, D_api_mixpanel_com, <<>>, JP_event, NoPath),
       Source("reddit-pixel", "Reddit Pixel", TRUE, D_alb_reddit_com, P_rp, JP_event, NoPath),
       Source("heap", "Heap Analytics", TRUE, D_heapanalytics_com, <<>>, JP_a, JP_b),
       Source("posthog", "PostHog", TRUE, D_app_posthog_com, <<>>, NoPath, JP_batch),
       Source("rudderstack", "RudderStack", TRUE, D_rudderstack_com, <<>>, NoPath, JP_batch) >>

\* DEFAULT_SOURCES (config/default-sources.js), in key order
DEFAULT_SOURCES ==
    << Source("reddit", "Reddit", TRUE, D_reddit_com, <<>>, NoPath, NoPath),
       Source("pie", "Pie", TRUE, D_pie_org, <<>>, NoPath, NoPath),
       [Source("honey", "Honey", TRUE, D_joinhoney_com, <<>>, NoPath, NoPath)
          EXCEPT !.fieldMappings = [eventName |-> <<"code">>, timestamp |-> <<"client_ts">>]],
       Source("chatgpt", "ChatGPT", TRUE, D_openai_com, <<>>, NoPath, NoPath),
       Source("grammarly", "Grammarly", TRUE, D_grammarly_com, <<>>, NoPath, NoPath) >>

\* ConfigManagerNode.load(): every default becomes a SourceConfig
JsLoad(configs) == [i \in 1..Len(configs) |-> SourceConfig(configs[i].id, configs[i])]


----------------------------------------------------------------------------
(* The base-domain function applied to drawn hosts, and to its own result   *)

MaxLabels == 3       \* labels of a drawn host

Labels == { <<"w","w","w">>, <<"E","x","a","m","p","l","e">>, <<"c","o">>, <<"u","k">>,
            <<"c","o","m">>, <<"1">>, <<"0">> }

H_example_com_8080 == <<"e","x","a","m","p","l","e",".","c","o","m",":","8","0","8","0">>

\* every host of up to MaxLabels labels, and some of four labels or with a port
BaseHosts ==
    { Join(ls, ".") : ls \in UNION { [1..n -> Labels] : n \in 1..MaxLabels } }
    \cup { D_127_0_0_1, H_shop_example_co_uk, H_WWW_Example_com, H_localhost,
           H_example_com_8080 }

\* the function under its two implementations
base(impl, host) == IF impl = "go" THEN extractBaseDomain(host) ELSE JsExtractBaseDomain(host)

BaseIdle == bImpl = "go" /\ bHost = <<>> /\ bBase = <<>>

BaseStart == bImpl \in {"go", "js"} /\ bHost \in BaseHosts /\ bBase = <<>>

\* the function applied to the host, then to what it returned
ApplyBase ==
    /\ Len(bBase) < 2
    /\ bBase' = Append(bBase, base(bImpl, IF bBase = <<>> THEN bHost ELSE bBase[Len(bBase)]))
    /\ UNCHANGED <<bImpl, bHost, certVars, timeVars, pathVars, globVars, extractVars, matchVars, proxyVars, hostVars>>

BaseNext == ApplyBase

----------------------------------------------------------------------------
(* The CA certificate and key on disk: loggy-proxy/internal/certs/ca.go     *)

MaxCalls == 4        \* calls of EnsureCA and TrustCert per behaviour

\* a file written from the key pair of generation gen, whole or cut short
File(gen, whole) == [gen |-> gen, whole |-> whole]
NoFile == File(0, FALSE)

\* os.Stat(path) returns no error
Exists(file) == file.gen # 0

\* a check that never finds the files
neverExist(cert, key) == FALSE

\* EnsureCA: "Both exist"
bothExist(cert, key) == Exists(cert) /\ Exists(key)

\* where GenerateCA may fail: os.MkdirAll, rsa.GenerateKey (or rand.Int, or
\* x509.CreateCertificate), os.Create, pem.Encode of the certificate,
\* os.OpenFile, pem.Encode of the key; or nowhere
FailPoints == {"MkdirAll", "GenerateKey", "Create", "EncodeCert", "OpenFile", "EncodeKey",
               "nowhere"}

\* GenerateCA(): the files and the count of generated pairs it leaves, and
\* whether it returned an error
GenerateCA(cert, key, gen, fail) ==
    LET k == gen + 1
        left(c, ky, g, err) == [cert |-> c, key |-> ky, gen |-> g, err |-> err]
    IN  CASE fail = "MkdirAll" -> left(cert, key, gen, TRUE)
          [] fail = "GenerateKey" -> left(cert, key, gen, TRUE)
          [] fail = "Create" -> left(cert, key, k, TRUE)
          [] fail = "EncodeCert" -> left(File(k, FALSE), key, k, TRUE)
          [] fail = "OpenFile" -> left(File(k, TRUE), key, k, TRUE)
          [] fail = "EncodeKey" -> left(File(k, TRUE), File(k, FALSE), k, TRUE)
          [] fail = "nowhere" -> left(File(k, TRUE), File(k, TRUE), k, FALSE)

Left(r) ==
    /\ certFile' = r.cert /\ keyFile' = r.key /\ caGen' = r.gen
    /\ caErr' = IF r.err THEN "error" ELSE "nil"

\* EnsureCA()
EnsureCA(fail) ==
    /\ caCalls < MaxCalls
    /\ caCalls' = caCalls + 1
    /\ IF bothExist(certFile, keyFile)
       THEN caErr' = "nil" /\ UNCHANGED <<certFile, keyFile, caGen>>
       ELSE Left(GenerateCA(certFile, keyFile, caGen, fail))
    /\ caFirst' = IF caFirst = <<>> /\ caErr' = "nil" THEN <<certFile', keyFile'>> ELSE caFirst
    /\ UNCHANGED <<baseVars, timeVars, pathVars, globVars, extractVars, matchVars, proxyVars, hostVars>>

\* TrustCert(): generates when ca.pem is missing; the keychain command that
\* follows writes neither file
TrustCert(fail) ==
    /\ caCalls < MaxCalls
    /\ caCalls' = caCalls + 1
    /\ IF ~Exists(certFile)
       THEN Left(GenerateCA(certFile, keyFile, caGen, fail))
       ELSE caErr' = "nil" /\ UNCHANGED <<certFile, keyFile, caGen>>
    /\ UNCHANGED <<caFirst, baseVars, timeVars, pathVars, globVars, extractVars, matchVars, proxyVars, hostVars>>

CertNext == \E fail \in FailPoints : EnsureCA(fail) \/ TrustCert(fail)

CertIdle ==
    /\ certFile = NoFile /\ keyFile = NoFile /\ caGen = 0 /\ caCalls = 0
    /\ caErr = "none" /\ caFirst = <<>>

\* a machine on which loggy-proxy never ran: no certificate directory
CertStart == CertIdle

----------------------------------------------------------------------------
(* The timestamp of a captured event: parsers.js normalizeTimestamp and     *)
(* parser.go parsePayload. A number n is held as hi * 1000000 + lo.         *)

Big(hi, lo) == [hi |-> hi, lo |-> lo]
Less(a, b) == a.hi < b.hi \/ (a.hi = b.hi /\ a.lo < b.lo)
Times1000(a) == Big(a.hi * 1000 + (a.lo * 1000) \div 1000000, (a.lo * 1000) % 1000000)

\* the text toISOString() / Format(time.RFC3339) gives for the instant ms
\* milliseconds after the epoch
Iso(ms) == [iso |-> ms]
Num(n) == [num |-> n]

\* 10000000000 in normalizeTimestamp
SecondsLimit == Big(10000, 0)

\* !timestamp, for a number or a non-empty string
Falsy(timestamp) == timestamp = Num(Big(0, 0))

\* AnalyticsParser.normalizeTimestamp(timestamp), the clock reading now
normalizeTimestamp(timestamp, now) ==
    IF Falsy(timestamp) THEN Iso(now)
    ELSE IF "iso" \in DOMAIN timestamp THEN timestamp
    ELSE Iso(IF Less(timestamp.num, SecondsLimit) THEN Times1000(timestamp.num)
                                                  ELSE timestamp.num)

\* extractEvent: extractField(item, 'timestamp', ...) || new Date().toISOString(),
\* then normalizeTimestamp
jsTimestamp(value, now) ==
    normalizeTimestamp(IF Falsy(Num(value)) THEN Iso(now) ELSE Num(value), now)

\* parsePayload: timestamp := now.Format(time.RFC3339), whole seconds, for
\* every event whatever it holds
goTimestamp(value, now) == Iso(Big(now.hi, now.lo - (now.lo % 1000)))

\* 0, 1 s, 5 s, 10^7 - 1, 10^7, a date in 2023 in seconds, 10^10 - 1, 10^10,
\* and dates in 2023 and 2027 in milliseconds
StampValues ==
    { Big(0, 0), Big(0, 1), Big(0, 5), Big(9, 999999), Big(10, 0), Big(1700, 0),
      Big(9999, 999999), Big(10000, 0), Big(1700000, 0), Big(1800000, 123) }
ClockValues == { Big(1700000, 0), Big(1800000, 123), Big(1800000, 999000) }

NoStamp == <<>>

TimeIdle == tImpl = "go" /\ tStamp = Big(0, 0) /\ tNow = Big(0, 0) /\ tOut = NoStamp

TimeStart ==
    /\ tImpl \in {"go", "js"} /\ tStamp \in StampValues /\ tNow \in ClockValues
    /\ tOut = NoStamp

\* an event holding tStamp is captured by loggy-proxy
GoStamp ==
    /\ tImpl = "go" /\ tOut = NoStamp
    /\ tOut' = goTimestamp(tStamp, tNow)
    /\ UNCHANGED <<tImpl, tStamp, tNow, baseVars, certVars, pathVars, globVars, extractVars, matchVars, proxyVars, hostVars>>

\* an event holding tStamp is captured by proxy-server-mitm.js
JsStamp ==
    /\ tImpl = "js" /\ tOut = NoStamp
    /\ tOut' = jsTimestamp(tStamp, tNow)
    /\ UNCHANGED <<tImpl, tStamp, tNow, baseVars, certVars, pathVars, globVars, extractVars, matchVars, proxyVars, hostVars>>

TimeNext == GoStamp \/ JsStamp

\* path resolution at rest, for the specifications that do not run it
PathIdle == rImpl = "go" /\ rData = <<>> /\ rPath = <<>> /\ rOut = <<>>

\* pattern matching at rest, for the specifications that do not run it
GlobIdle == gPath = <<>> /\ gPattern = <<>> /\ gOut = <<>>
ExtractIdle == xImpl = "go" /\ xPayload = <<>> /\ xEvents = <<>>

RestIdle == BaseIdle /\ CertIdle /\ TimeIdle /\ PathIdle /\ GlobIdle /\ ExtractIdle

----------------------------------------------------------------------------
(* Source matching applied to drawn registries and URLs                    *)

NoUrl == Url("", <<>>, <<>>, <<>>)

MatchRegistries ==
    { GetDefaultSources,
      DEFAULT_SOURCES,
      << Source("off", "Off", FALSE, D_example_com, <<>>, NoPath, NoPath),
         Source("v1", "V1 only", TRUE, D_example_com, P_v1, NoPath, NoPath),
         Source("any", "Any path", TRUE, D_example_com, <<>>, NoPath, NoPath) >>,
      << Source("glob", "Api tree", TRUE, D_example_com, P_api_glob, NoPath, NoPath) >>,
      << Source("uk", "UK shop", TRUE, D_example_co_uk, <<>>, NoPath, NoPath) >>,
      << Source("caps", "Upper-case domain", TRUE, D_Example_COM, <<>>, NoPath, NoPath) >>,
      << Source("ip", "Local collector", TRUE, D_127_0_0_1, <<>>, NoPath, NoPath) >>,
      << Source("seg", "Segment (base domain)", TRUE, D_segment_io, P_v1, NoPath, JP_batch) >>,
      << >> }

MatchUrls ==
    { Url("https", D_api_segment_io, U_v1_batch, <<>>),
      Url("https", H_www_google_analytics_com, U_mp_collect, Q_measurement),
      Url("https", D_example_com, U_api_v1_track, <<>>),
      Url("https", D_example_com, U_v1_batch, <<>>),
      Url("https", H_WWW_Example_com, U_index, <<>>),
      Url("https", H_shop_example_co_uk, U_api_v1_track, <<>>),
      Url("http", D_127_0_0_1, U_api_v1_track, <<>>),
      Url("https", D_alb_reddit_com, U_rp_gif, <<>>),
      Url("http", H_localhost, U_index, <<>>) }

\* the matcher at rest, for the specifications that do not run it
MatchIdle == mImpl = "go" /\ mSources = <<>> /\ mUrl = NoUrl /\ mResult = 0

MatchStart ==
    /\ mImpl \in {"go", "js"}
    /\ \E L \in MatchRegistries : mSources = IF mImpl = "go" THEN L ELSE JsLoad(L)
    /\ mUrl = NoUrl
    /\ mResult = 0

\* findMatchingSource(url) in handleRequest / configManager.findSourceForUrl(fullUrl)
ApplyMatch ==
    \E u \in MatchUrls :
        /\ mUrl' = u
        /\ mResult' = IF mImpl = "go" THEN findMatchingSource(mSources, u)
                                      ELSE findSourceForUrl(mSources, u)
        /\ UNCHANGED <<mImpl, mSources, proxyVars, hostVars, restVars>>

MatchNext == ApplyMatch

----------------------------------------------------------------------------
(* The registry contract as the specification words it (section 4.3)       *)

\* base(host): last three labels under a listed multi-label suffix, an IPv4
\* literal unchanged, otherwise the last two labels; case-folded
ContractBase(host) ==
    LET h == ToLower(host)
        parts == Split(h, ".")
    IN  IF IsIPv4(h) THEN h
        ELSE IF Join(LastN(parts, 2), ".") \in specialTLDs THEN Join(LastN(parts, 3), ".")
        ELSE Join(LastN(parts, 2), ".")

RECURSIVE ContractGlob(_, _)
\* glob_match(path, pattern): `*` a run of non-slash characters, `**` any run
ContractGlob(path, pattern) ==
    IF Len(pattern) = 0 THEN Len(path) = 0
    ELSE IF Len(pattern) >= 2 /\ pattern[1] = "*" /\ pattern[2] = "*"
    THEN \E k \in 0..Len(path) :
            ContractGlob(SubSeq(path, k + 1, Len(path)), SubSeq(pattern, 3, Len(pattern)))
    ELSE IF pattern[1] = "*"
    THEN \E k \in 0..Len(path) :
            /\ \A j \in 1..k : path[j] # "/"
            /\ ContractGlob(SubSeq(path, k + 1, Len(path)), Tail(pattern))
    ELSE /\ Len(path) > 0
         /\ pattern[1] = path[1]
         /\ ContractGlob(Tail(path), Tail(pattern))

UrlPatternOf(s) == IF "urlPattern" \in DOMAIN s THEN s.urlPattern ELSE <<>>

Satisfies(s, u) ==
    /\ s.enabled
    /\ ToLower(s.domain) = ContractBase(u.host)
    /\ (UrlPatternOf(s) = <<>> \/ ContractGlob(u.path, UrlPatternOf(s)))

\* C4: match(url) returns the first source in insertion order that is enabled,
\* whose domain equals base(host) after case-folding and whose url_pattern is
\* empty or glob-matches the path; nil iff no source satisfies all three.
C4_MatchFirstSatisfying ==
    mUrl # NoUrl =>
        /\ (mResult = 0) <=> (\A i \in 1..Len(mSources) : ~Satisfies(mSources[i], mUrl))
        /\ mResult # 0 =>
              /\ Satisfies(mSources[mResult], mUrl)
              /\ \A j \in 1..(mResult - 1) : ~Satisfies(mSources[j], mUrl)

\* The same statement read with the base-domain and glob functions the
\* implementation under test uses
ImplSatisfies(s, u) ==
    IF mImpl = "go" THEN Matches(s, u) ELSE s.enabled /\ JsMatches(s, u)

C4_MatchFirstByImplFunctions ==
    mUrl # NoUrl =>
        /\ (mResult = 0) <=> (\A i \in 1..Len(mSources) : ~ImplSatisfies(mSources[i], mUrl))
        /\ mResult # 0 =>
              /\ ImplSatisfies(mSources[mResult], mUrl)
              /\ \A j \in 1..(mResult - 1) : ~ImplSatisfies(mSources[j], mUrl)


----------------------------------------------------------------------------
(* JSON values: tagged records. An object holds a function from its keys.  *)

JStr(s) == [str |-> s]
JNum(n) == [num |-> n]
JBool(b) == [bool |-> b]
JArr(a) == [arr |-> a]
JObj(o) == [obj |-> o]
JNull == [null |-> TRUE]      \* Go nil interface / JSON null
JUndef == [undef |-> TRUE]    \* JavaScript undefined

IsStr(v) == "str" \in DOMAIN v
IsArr(v) == "arr" \in DOMAIN v
IsObj(v) == "obj" \in DOMAIN v
IsNull(v) == "null" \in DOMAIN v
IsUndef(v) == "undef" \in DOMAIN v
HasKey(v, k) == IsObj(v) /\ k \in DOMAIN v.obj

----------------------------------------------------------------------------
(* Event extraction: loggy-proxy/internal/proxy/parser.go                  *)

DigitVal(c) == CHOOSE n \in 0..9 : <<"0","1","2","3","4","5","6","7","8","9">>[n + 1] = c

IndexOf(s, x) == IF \E i \in 1..Len(s) : s[i] = x
                 THEN CHOOSE i \in 1..Len(s) : s[i] = x /\ \A j \in 1..(i - 1) : s[j] # x
                 ELSE 0

RECURSIVE TrimLeft(_, _)
TrimLeft(s, cut) == IF Len(s) > 0 /\ s[1] \in cut THEN TrimLeft(Tail(s), cut) ELSE s

RECURSIVE TrimRight(_, _)
TrimRight(s, cut) ==
    IF Len(s) > 0 /\ s[Len(s)] \in cut THEN TrimRight(SubSeq(s, 1, Len(s) - 1), cut) ELSE s

\* strings.Trim(s, cutset)
Trim(s, cut) == TrimRight(TrimLeft(s, cut), cut)

RECURSIVE parseIndexFrom(_, _, _)
parseIndexFrom(s, i, acc) ==
    IF i > Len(s) THEN acc
    ELSE IF s[i] \in Digits THEN parseIndexFrom(s, i + 1, acc * 10 + DigitVal(s[i]))
    ELSE acc

\* parseIndex: the digits read so far; its error result is always nil
parseIndex(s) == parseIndexFrom(s, 1, 0)

KeyOf(toks) == IF Len(toks) = 0 THEN "" ELSE toks[1]

pathPart(key, index) == [Key |-> key, Index |-> index]

parseJSONPath(path) ==
    LET segments == Split(path, ".")
        part(segment) ==
            LET idx == IndexOf(segment, "[")
            IN  IF idx # 0
                THEN pathPart(KeyOf(SubSeq(segment, 1, idx - 1)),
                              parseIndex(Trim(SubSeq(segment, idx, Len(segment)), {"[", "]"})))
                ELSE pathPart(KeyOf(segment), -1)
    IN  [i \in 1..Len(segments) |-> part(segments[i])]

RECURSIVE walkParts(_, _, _)
walkParts(current, parts, i) ==
    IF i > Len(parts) THEN current
    ELSE LET part == parts[i]
         IN  IF IsObj(current)
             THEN IF part.Key \in DOMAIN current.obj
                  THEN LET val == current.obj[part.Key]
                       IN  IF part.Index >= 0
                           THEN IF IsArr(val) /\ part.Index < Len(val.arr)
                                THEN walkParts(val.arr[part.Index + 1], parts, i + 1)
                                ELSE JNull
                           ELSE walkParts(val, parts, i + 1)
                  ELSE JNull
             ELSE IF IsArr(current)
             THEN IF part.Index >= 0 /\ part.Index < Len(current.arr)
                  THEN walkParts(current.arr[part.Index + 1], parts, i + 1)
                  ELSE JNull
             ELSE JNull

getNestedValue(data, path) == walkParts(data, parseJSONPath(path), 1)

RECURSIVE firstArrayField(_, _, _)
firstArrayField(payloadMap, fields, i) ==
    IF i > Len(fields) THEN 0
    ELSE IF HasKey(payloadMap, fields[i]) /\ IsArr(payloadMap.obj[fields[i]]) THEN i
    ELSE firstArrayField(payloadMap, fields, i + 1)

batchFields == <<"batch", "events", "data", "items", "hits", "b">>

extractEvents(payload, source) ==
    IF ~IsObj(payload) THEN <<>>
    ELSE LET batch == IF source.batchPath # <<>> THEN getNestedValue(payload, source.batchPath)
                                                 ELSE JNull
             k == firstArrayField(payload, batchFields, 1)
         IN  IF IsArr(batch) THEN batch.arr
             ELSE IF k # 0 THEN payload.obj[batchFields[k]].arr
             ELSE <<>>

RECURSIVE firstStringField(_, _, _)
\* first of fields that holds a non-empty string; "" when none does
firstStringField(eventMap, fields, i) ==
    IF i > Len(fields) THEN ""
    ELSE IF /\ HasKey(eventMap, fields[i])
            /\ IsStr(eventMap.obj[fields[i]])
            /\ eventMap.obj[fields[i]].str # ""
         THEN eventMap.obj[fields[i]].str
         ELSE firstStringField(eventMap, fields, i + 1)

nameFields == <<"event", "eventName", "event_name", "name", "action", "en", "e", "a", "type", "t">>

extractEventName(event, source) ==
    IF ~IsObj(event) THEN "unknown"
    ELSE LET name == IF source.eventNamePath # <<>>
                     THEN getNestedValue(event, source.eventNamePath) ELSE JNull
             found == firstStringField(event, nameFields, 1)
         IN  IF IsStr(name) THEN name.str
             ELSE IF found # "" THEN found
             ELSE "unknown"

RECURSIVE firstMapField(_, _, _)
firstMapField(eventMap, fields, i) ==
    IF i > Len(fields) THEN 0
    ELSE IF HasKey(eventMap, fields[i]) /\ IsObj(eventMap.obj[fields[i]]) THEN i
    ELSE firstMapField(eventMap, fields, i + 1)

propFields == <<"properties", "params", "data", "traits", "p">>

extractEventData(event) ==
    IF ~IsObj(event) THEN JNull
    ELSE LET k == firstMapField(event, propFields, 1)
         IN  IF k # 0 THEN event.obj[propFields[k]] ELSE event

userFields == <<"userId", "user_id", "uid">>
anonFields == <<"anonymousId", "anonymous_id", "anonId">>

\* (userID, anonID)
extractUserIDs(event) ==
    IF ~IsObj(event) THEN <<"", "">>
    ELSE <<firstStringField(event, userFields, 1), firstStringField(event, anonFields, 1)>>

extractContext(event) ==
    IF HasKey(event, "context") /\ IsObj(event.obj["context"]) THEN event.obj["context"] ELSE JNull

\* CapturedEvent as parsePayload fills it (the random id and the clock
\* readings are not modelled)
CapturedEvent(raw, source, requestURL) ==
    [Event |-> extractEventName(raw, source),
     Properties |-> extractEventData(raw),
     Context |-> extractContext(raw),
     UserID |-> extractUserIDs(raw)[1],
     AnonymousID |-> extractUserIDs(raw)[2],
     Type |-> "track",
     Source |-> source.id,
     SourceName |-> source.name,
     URL |-> requestURL]


----------------------------------------------------------------------------
(* Request bodies: byte sequences, and what the decoders make of them      *)

SegmentPayload ==
    JObj([batch |-> JArr(<< JObj([event |-> JStr("Viewed"), userId |-> JStr("u1")]),
                            JObj([event |-> JStr("Clicked"), userId |-> JStr("u1")]) >>),
          sentAt |-> JStr("2024-01-01T00:00:00Z")])

GaPayload ==
    JObj([client_id |-> JStr("c"),
          events |-> JArr(<< JObj([name |-> JStr("page_view"),
                                   params |-> JObj([page |-> JStr("/x")])]) >>)])

LoginPayload == JObj([event |-> JStr("Login"), properties |-> JObj([ok |-> JBool(TRUE)])])

B_segment == <<"{\"batch\":[{\"event\":\"Viewed\",..},", "{\"event\":\"Clicked\",..}],\"sentAt\":..}">>
B_ga == <<"{\"client_id\":\"c\",", "\"events\":[{\"name\":\"page_view\",..}]}">>
B_login == <<"{\"event\":\"Login\",", "\"properties\":{\"ok\":true}}">>
B_segment_gz == <<"1f8b", "gzip(B_segment)">>
B_form == <<"event=Signup", "&userId=u2">>

\* one event with a name the probe list finds and a label a mapping names
B_labelled == <<"{\"event\":\"Login\",\"label\":\"Checkout\"}">>
LabelledPayload == JObj([event |-> JStr("Login"), label |-> JStr("Checkout")])
JP_label == <<"label">>

B_text == <<"hello">>        \* neither JSON nor key=value pairs
B_badform == <<"%zz">>       \* not JSON, and an escape url.ParseQuery rejects

MaxBatch == 3        \* elements of a posted batch array

\* the elements a batch array is made of, by the name they have in a body
ElemNames == <<"A", "B", "C", "S">>
ElemValue(n) ==
    CASE n = "A" -> JObj([name |-> JStr("a")])
      [] n = "B" -> JObj([name |-> JStr("b")])
      [] n = "C" -> JObj([name |-> JStr("c")])
      [] n = "S" -> JStr("s")

\* the JSON text {"events":[...]} with the named elements
EventsBody(names) == <<"{\"events\":[", names, "]}">>
IsEventsBody(data) == Len(data) = 3 /\ data[1] = "{\"events\":["
EventsPayload(names) ==
    JObj([events |-> JArr([i \in 1..Len(names) |-> ElemValue(names[i])])])

\* the JSON text [...] with the named elements: the payload itself an array
ArrayBody(names) == <<"[", names, "]">>
IsArrayBody(data) == Len(data) = 3 /\ data[1] = "["
ArrayPayload(names) == JArr([i \in 1..Len(names) |-> ElemValue(names[i])])

\* every sequence of element names of length n, then of length at most n
RECURSIVE NamesOfLen(_)
NamesOfLen(n) ==
    IF n = 0 THEN << <<>> >>
    ELSE LET prev == NamesOfLen(n - 1)
             m == Len(ElemNames)
         IN  [k \in 1..(Len(prev) * m) |->
                 Append(prev[((k - 1) \div m) + 1], ElemNames[((k - 1) % m) + 1])]
RECURSIVE NamesUpTo(_)
NamesUpTo(n) == IF n = 0 THEN NamesOfLen(0) ELSE NamesUpTo(n - 1) \o NamesOfLen(n)

OkVal(v) == [ok |-> TRUE, val |-> v]
Failed == [ok |-> FALSE]

\* json.Unmarshal / JSON.parse on the bodies above
JsonDecode(data) ==
    CASE IsEventsBody(data) -> OkVal(EventsPayload(data[2]))
      [] IsArrayBody(data) -> OkVal(ArrayPayload(data[2]))
      [] data = B_segment -> OkVal(SegmentPayload)
      [] data = B_ga -> OkVal(GaPayload)
      [] data = B_login -> OkVal(LoginPayload)
      [] data = B_labelled -> OkVal(LabelledPayload)
      [] OTHER -> Failed

\* url.ParseQuery on the bodies above that are not JSON: the values of each
\* key, or an error (a bad escape, compressed bytes)
ParseQuery(data) ==
    CASE data = B_form -> OkVal([event |-> <<"Signup">>, userId |-> <<"u2">>])
      [] data = B_text -> OkVal([hello |-> <<"">>])
      [] OTHER -> Failed

\* parseURLEncoded: a key with one value maps to that string. On an error
\* the function returns a nil map, which the caller holds in an interface
\* value: a map without keys, and not nil
parseURLEncoded(data) ==
    LET values == ParseQuery(data)
    IN  IF ~values.ok THEN JObj(<<>>)
        ELSE JObj([key \in DOMAIN values.val |->
                     IF Len(values.val[key]) = 1 THEN JStr(values.val[key][1])
                     ELSE JArr([i \in 1..Len(values.val[key]) |-> JStr(values.val[key][i])])])

\* gzip.NewReader + io.ReadAll / zlib.gunzipSync
Gunzip(data) == IF data = B_segment_gz THEN OkVal(B_segment) ELSE Failed

\* decompress(data, encoding): the inflated bytes, else the data as it came
decompress(data, encoding) ==
    IF encoding = "gzip" /\ Gunzip(data).ok THEN Gunzip(data).val ELSE data

\* parsePayload from the decoded payload on
eventsOfPayload(payload, source, requestURL) ==
    LET rawEvents == extractEvents(payload, source)
        events == [i \in 1..Len(rawEvents) |-> CapturedEvent(rawEvents[i], source, requestURL)]
    IN  IF Len(events) = 0 /\ ~IsNull(payload)
        THEN << CapturedEvent(payload, source, requestURL) >>
        ELSE events

parsePayload(data, source, requestURL) ==
    eventsOfPayload(IF JsonDecode(data).ok THEN JsonDecode(data).val ELSE parseURLEncoded(data),
                    source, requestURL)

\* trackUnmatchedDomain(host): the key counted, <<>> when the host is skipped
D_google_com == <<"g","o","o","g","l","e",".","c","o","m">>
D_gstatic_com == <<"g","s","t","a","t","i","c",".","c","o","m">>
D_googleapis_com == <<"g","o","o","g","l","e","a","p","i","s",".","c","o","m">>
D_cloudflare_com == <<"c","l","o","u","d","f","l","a","r","e",".","c","o","m">>
skipDomains == {D_google_com, D_gstatic_com, D_googleapis_com, D_cloudflare_com}

trackedHost(host) ==
    LET parts == Split(host, ".")
    IN  IF Len(parts) >= 2 THEN Join(LastN(parts, 2), ".") ELSE host

\* unmatchedDomains[host]++ on a map held as a function
Bump(map, key) ==
    IF key \in DOMAIN map THEN [map EXCEPT ![key] = @ + 1]
    ELSE [k \in DOMAIN map \cup {key} |-> IF k = key THEN 1 ELSE map[k]]

EmptyMap == [k \in {} |-> 0]


----------------------------------------------------------------------------
(* Event extraction: parsers.js                                            *)

\* JavaScript truthiness of a JSON value
Truthy(v) ==
    CASE IsNull(v) \/ IsUndef(v) -> FALSE
      [] IsStr(v) -> v.str # ""
      [] "bool" \in DOMAIN v -> v.bool
      [] "num" \in DOMAIN v -> v.num # 0
      [] OTHER -> TRUE

\* typeof v === 'object' && v !== null
IsJsObject(v) == IsObj(v) \/ IsArr(v)

\* v[key] for a property name that is not an array index
JsField(v, key) == IF HasKey(v, key) THEN v.obj[key] ELSE JUndef

\* current[part] for a part that is not taken as an array index: an array
\* has its length, an object the keys it holds
JsMember(v, part) ==
    IF IsArr(v) /\ part = "length" THEN JNum(Len(v.arr)) ELSE JsField(v, part)

RECURSIVE jsWalk(_, _, _)
jsWalk(current, parts, i) ==
    IF i > Len(parts) THEN current
    ELSE IF ~IsJsObject(current) THEN JUndef
    ELSE LET part == parts[i]
             next == IF part \in Digits /\ IsArr(current)
                     THEN IF DigitVal(part) < Len(current.arr)
                          THEN current.arr[DigitVal(part) + 1] ELSE JUndef
                     ELSE JsMember(current, part)
         IN  jsWalk(next, parts, i + 1)

\* getNestedValue(data, path): path.split(/\.|\[|\]/).filter(p => p !== '')
JsGetNestedValue(data, path) ==
    IF path = <<>> \/ ~Truthy(data) THEN JUndef
    ELSE jsWalk(data, SelectSeq(path, LAMBDA t : t \notin {".", "[", "]"}), 1)

FIELD_PATHS ==
    [eventName |-> << <<"event">>, <<"eventName">>, <<"event_name">>, <<"name">>,
                      <<"action">>, <<"code">>, <<"type">>, <<"eventType">>,
                      <<"event_data", ".", "event">>, <<"event_data", ".", "eventName">>,
                      <<"event_data", ".", "event_name">>, <<"data", ".", "event">>,
                      <<"data", ".", "eventName">> >>,
     userId |-> << <<"userId">>, <<"user_id">>, <<"uid">>, <<"anonymousId">>,
                   <<"anonymous_id">>, <<"anonId">>, <<"context", ".", "userId">>,
                   <<"context", ".", "user_id">>,
                   <<"event_data", ".", "context", ".", "user_id">>,
                   <<"event_data", ".", "user_id">>, <<"data", ".", "user_id">> >>]

RECURSIVE findFieldValue(_, _, _)
findFieldValue(data, fields, i) ==
    IF i > Len(fields) THEN JNull
    ELSE LET value == JsGetNestedValue(data, fields[i])
         IN  IF ~IsUndef(value) /\ ~IsNull(value) THEN value
             ELSE findFieldValue(data, fields, i + 1)

extractField(data, fieldType, fieldMappings) ==
    LET value == IF fieldType \in DOMAIN fieldMappings
                 THEN JsGetNestedValue(data, fieldMappings[fieldType]) ELSE JUndef
    IN  IF ~IsUndef(value) /\ ~IsNull(value) THEN value
        ELSE findFieldValue(data, FIELD_PATHS[fieldType], 1)

\* extractEvent(item, fieldMappings, parentData), called on an object (the
\* random id, the timestamp, properties and context are left out of the record)
extractEvent(item, fieldMappings, parentData) ==
    LET eventName == extractField(item, "eventName", fieldMappings)
        userId == extractField(item, "userId", fieldMappings)
    IN  [event |-> IF Truthy(eventName) THEN eventName ELSE JStr("unknown"),
         userId |-> IF Truthy(userId) THEN userId
                    ELSE IF ~IsNull(parentData)
                    THEN extractField(parentData, "userId", fieldMappings) ELSE JNull,
         anonymousId |-> IF Truthy(JsField(item, "anonymousId")) THEN JsField(item, "anonymousId")
                         ELSE JsField(parentData, "anonymousId"),
         type |-> IF Truthy(JsField(item, "type")) THEN JsField(item, "type") ELSE JStr("track")]

EVENT_ARRAY_FIELDS == <<"batch", "events", "data", "items", "records", "messages">>

\* findEventArray(data): index of the first field holding an array, 0 for none
RECURSIVE findEventArray(_, _)
findEventArray(data, i) ==
    IF i > Len(EVENT_ARRAY_FIELDS) THEN 0
    ELSE IF IsArr(JsField(data, EVENT_ARRAY_FIELDS[i])) THEN i
    ELSE findEventArray(data, i + 1)

\* AnalyticsParser.parsePayload(data, fieldMappings); data[field] on null
\* throws, which the caller catches: Failed
JsParsePayload(data, fieldMappings) ==
    LET k == findEventArray(data, 1)
        eventArray == IF k # 0 THEN data.obj[EVENT_ARRAY_FIELDS[k]].arr ELSE data.arr
        items == SelectSeq(eventArray, IsJsObject)
    IN  IF IsNull(data) THEN Failed
        ELSE IF k # 0 \/ IsArr(data)
        THEN OkVal([i \in 1..Len(items) |-> extractEvent(items[i], fieldMappings, data)])
        ELSE IF IsJsObject(data) THEN OkVal(<< extractEvent(data, fieldMappings, JNull) >>)
        ELSE OkVal(<<>>)

\* parseEventFromSource(source, data, fullUrl)
parseEventFromSource(source, data, fullUrl) ==
    LET parsed == JsParsePayload(data, source.fieldMappings)
        enrich(e) == [event |-> e.event, userId |-> e.userId, anonymousId |-> e.anonymousId,
                      type |-> e.type, _source |-> source.id, _sourceName |-> source.name,
                      url |-> fullUrl]
    IN  IF parsed.ok THEN OkVal([i \in 1..Len(parsed.val) |-> enrich(parsed.val[i])])
        ELSE Failed

ANALYTICS_ENDPOINT_PATTERNS ==
    << <<"/","a","n","a","l","y","t","i","c","s">>, <<"/","e","v","e","n","t","s">>,
       <<"/","t","r","a","c","k">>, <<"/","c","o","l","l","e","c","t">>,
       <<"/","l","o","g">>, <<"/","b","e","a","c","o","n">>,
       <<"/","v","1","/","b","a","t","c","h">>, <<"/","v","1","/","t","r","a","c","k">>,
       <<"/","e","v","s">>, <<"/","t","e","l","e","m","e","t","r","y">>,
       <<"/","m","e","t","r","i","c","s">> >>

looksLikeAnalyticsEndpoint(u) ==
    \E i \in 1..Len(ANALYTICS_ENDPOINT_PATTERNS) :
        Contains(ToLower(u.path), ANALYTICS_ENDPOINT_PATTERNS[i])

----------------------------------------------------------------------------
(* Event extraction applied to drawn decoded payloads                      *)

MaxKeys == 2         \* keys of a drawn event object, and of a drawn outer payload

\* keys an event name may be under, and keys a user or anonymous id may be under
NameKeys == {"event", "eventName", "event_name", "name", "action", "code", "en", "e",
             "a", "type", "t", "eventType"}
IdKeys == {"userId", "user_id", "uid", "anonymousId", "anonymous_id", "anonId"}

UpTo(S, n) == {T \in SUBSET S : Cardinality(T) <= n}

\* a single event holding the keys of S, each with its own key as the value
NameEvent(S) == JObj([k \in S |-> JStr(k)])

\* a batch of one event: the event holds "name" and the keys of own with the
\* value "own", the payload around it the keys of outer, each with its key
\* as the value
BatchItem(own) == JObj([k \in own \cup {"name"} |-> IF k = "name" THEN JStr("a") ELSE JStr("own")])
BatchPayload(outer, own) ==
    JObj([k \in outer \cup {"events"} |->
            IF k = "events" THEN JArr(<< BatchItem(own) >>) ELSE JStr(k)])

ExtractPayloads ==
    {NameEvent(S) : S \in UpTo(NameKeys, MaxKeys)}
    \cup {BatchPayload(outer, own) : outer \in UpTo(IdKeys, MaxKeys), own \in UpTo(IdKeys, 1)}

\* a source that sets no mapping and no batch path
PlainSource == Source("plain", "Plain", TRUE, D_example_com, <<>>, NoPath, NoPath)

NotParsed == <<>>

ExtractStart ==
    /\ xImpl \in {"go", "js"} /\ xPayload \in ExtractPayloads
    /\ xEvents = NotParsed

\* parser.go: parsePayload, from the decoded payload on
GoExtract ==
    /\ xImpl = "go" /\ xEvents = NotParsed
    /\ xEvents' = << eventsOfPayload(xPayload, PlainSource, NoUrl) >>
    /\ UNCHANGED <<xImpl, xPayload, baseVars, certVars, timeVars, pathVars, globVars,
                   matchVars, proxyVars, hostVars>>

\* parsers.js: AnalyticsParser.parsePayload(data, {})
JsExtract ==
    /\ xImpl = "js" /\ xEvents = NotParsed
    /\ xEvents' = LET parsed == JsParsePayload(xPayload, <<>>)
                  IN  << IF parsed.ok THEN parsed.val ELSE <<>> >>
    /\ UNCHANGED <<xImpl, xPayload, baseVars, certVars, timeVars, pathVars, globVars,
                   matchVars, proxyVars, hostVars>>

ExtractNext == GoExtract \/ JsExtract

----------------------------------------------------------------------------
(* url_pattern matching applied to drawn paths and patterns                *)

P_api_star == <<"/","a","p","i","/","*">>
P_api_glob_x == <<"/","a","p","i","/","*","*","/","x">>
P_any == <<"/","*","*">>
U_api == <<"/","a","p","i">>
U_api_a == <<"/","a","p","i","/","a">>
U_api_a_b == <<"/","a","p","i","/","a","/","b">>
U_api_a_b_x == <<"/","a","p","i","/","a","/","b","/","x">>
U_api_x == <<"/","a","p","i","/","x">>
U_g_collect == <<"/","g","/","c","o","l","l","e","c","t">>
U_rp_gif_q == <<"/","r","p",".","g","i","f","/","q">>

GlobPatterns == {<<>>, P_api_star, P_api_glob, P_api_glob_x, P_any, P_v1, P_ga, P_gamp, P_rp}
GlobPaths ==
    {U_api, U_api_a, U_api_a_b, U_api_a_b_x, U_api_x, U_api_v1_track, U_v1_batch,
     U_mp_collect, U_g_collect, U_rp_gif, U_rp_gif_q, U_index}

NotAsked == <<>>

GlobStart == gPath \in GlobPaths /\ gPattern \in GlobPatterns /\ gOut = NotAsked

\* Source.Matches: "Check URL pattern if specified"
patternAllows(path, pattern) == pattern # <<>> => matchGlob(path, pattern)

ApplyGlob ==
    /\ gOut = NotAsked
    /\ gOut' = <<patternAllows(gPath, gPattern)>>
    /\ UNCHANGED <<gPath, gPattern, baseVars, certVars, timeVars, pathVars, extractVars, matchVars,
                   proxyVars, hostVars>>

GlobNext == ApplyGlob

----------------------------------------------------------------------------
(* Path resolution applied to drawn documents and paths                    *)

Doc_events == JObj([events |-> JArr(<< JObj([name |-> JStr("x")]) >>)])
Doc_mixed ==
    JObj([a |-> JArr(<< JObj([name |-> JStr("x")]) >>),
          s |-> JStr("str"),
          o |-> JObj([k |-> JStr("v")])])
Doc_nested ==
    JObj([events |-> JArr(<< JObj([name |-> JStr("x")]), JObj([name |-> JStr("y")]) >>),
          user |-> JObj([profile |-> JObj([email |-> JStr("e")])])])

PathDocs == {Doc_events, Doc_mixed, Doc_nested}

\* path expressions: dotted segments, each with an optional [integer] suffix
PathExprs ==
    { JP_events0name,
      <<"events", "[", "1", "]", ".", "name">>,
      <<"events", "[", "2", "]", ".", "name">>,
      <<"events", ".", "name">>,
      <<"events", ".", "length">>,
      <<"events", "[", "0", "]", ".", "nome">>,
      <<"events", "[", "0", "]", ".", "name", ".", "z">>,
      <<"events", "[", "0", "]", ".", "name", "[", "0", "]">>,
      <<"events", ".", "foo", "[", "0", "]", ".", "name">>,
      <<"missing", ".", "name">>,
      <<"missing", "[", "0", "]", ".", "name">>,
      <<"user", ".", "profile", ".", "email">>,
      <<"user", ".", "profile", ".", "email", ".", "z">>,
      <<"user", "[", "0", "]", ".", "profile">>,
      <<"user", ".", "nome", ".", "email">>,
      <<"s", ".", "name">>,
      <<"s", "[", "0", "]">>,
      <<"o", ".", "k">>,
      <<"o", ".", "k", ".", "z">>,
      <<"o", "[", "0", "]", ".", "k">>,
      <<"a", "[", "0", "]", ".", "name">>,
      <<"a", ".", "foo", "[", "0", "]">>,
      <<"a", ".", "foo", "[", "0", "]", ".", "name">> }

NotResolved == <<>>

PathStart ==
    /\ rImpl \in {"go", "js"} /\ rData \in PathDocs /\ rPath \in PathExprs
    /\ rOut = NotResolved

\* parser.go: getNestedValue(data, path)
GoResolve ==
    /\ rImpl = "go" /\ rOut = NotResolved
    /\ rOut' = getNestedValue(rData, rPath)
    /\ UNCHANGED <<rImpl, rData, rPath, baseVars, certVars, timeVars, globVars, extractVars, matchVars,
                   proxyVars, hostVars>>

\* parsers.js: AnalyticsParser.getNestedValue(data, path)
JsResolve ==
    /\ rImpl = "js" /\ rOut = NotResolved
    /\ rOut' = JsGetNestedValue(rData, rPath)
    /\ UNCHANGED <<rImpl, rData, rPath, baseVars, certVars, timeVars, globVars, extractVars, matchVars,
                   proxyVars, hostVars>>

PathNext == GoResolve \/ JsResolve

----------------------------------------------------------------------------
(* The proxy: server.go handleRequest, proxy-server-mitm.js onRequest, and  *)
(* the control API (parser.go handle*, proxy-server-mitm.js apiServer)      *)

MaxEvents == 2       \* stands for MaxEvents / MAX_EVENTS = 1000
MaxOps == 3          \* requests per behaviour, proxied and control API together

Handlers == {"h1", "h2"}

\* sent: how much of the body reaches the proxy before the client's stream
\* ends (all of it) or breaks off (less)
Request(method, host, path, query, encoding, body, sent) ==
    [method |-> method, url |-> Url("https", host, path, query),
     encoding |-> encoding, body |-> body, sent |-> sent]

Traffic ==
    << Request("POST", D_api_segment_io, U_v1_batch, <<>>, "", B_segment, 2),
       Request("POST", H_www_google_analytics_com, U_mp_collect, Q_measurement, "", B_ga, 2),
       Request("PUT", D_rudderstack_com, U_v1_batch, <<>>, "gzip", B_segment_gz, 2),
       Request("POST", D_alb_reddit_com, U_rp_gif, <<>>, "", B_segment, 2),
       Request("POST", D_example_com, U_api_v1_track, <<>>, "", B_login, 2),
       Request("PUT", D_rudderstack_com, U_v1_batch, <<>>, "gzip", B_segment_gz, 1),
       Request("POST", D_alb_reddit_com, U_rp_gif, <<>>, "", B_segment, 1) >>

\* the bodies posted to see what extraction makes of them: every batch of up
\* to MaxBatch elements, a form, plain text, a broken form, and every
\* top-level array of up to MaxBatch elements, and the labelled event
ParseBodies ==
    LET names == NamesUpTo(MaxBatch)
    IN  [k \in 1..Len(names) |-> EventsBody(names[k])] \o <<B_form, B_text, B_badform>>
        \o [k \in 1..Len(names) |-> ArrayBody(names[k])] \o <<B_labelled>>

\* each of them posted whole to https://example.com/api/v1/track and to
\* https://alb.reddit.com/rp.gif, and the labelled event to a host no
\* source is for
Payloads ==
    [k \in 1..(2 * Len(ParseBodies)) |->
        LET body == ParseBodies[((k - 1) \div 2) + 1]
        IN  IF k % 2 = 1
            THEN Request("POST", D_example_com, U_api_v1_track, <<>>, "", body, Len(body))
            ELSE Request("POST", D_alb_reddit_com, U_rp_gif, <<>>, "", body, Len(body))]
    \o << Request("POST", D_example_co_uk, U_api_v1_track, <<>>, "",
                  B_labelled, Len(B_labelled)) >>

Requests == Traffic \o Payloads

\* bodies a client may post to /sources: a JSON array of sources, or not JSON
TrafficSyncs ==
    << << Source("reddit", "Reddit", FALSE, D_reddit_com, <<>>, NoPath, NoPath),
          [id |-> "segment", name |-> "Segment", enabled |-> TRUE, domain |-> D_segment_io,
           urlPattern |-> P_v1, eventNamePath |-> NoPath, batchPath |-> JP_batch,
           fieldMappings |-> <<>>, createdBy |-> "user"] >> >>

\* a source as a client writes it: created by the user, no mappings
UserSource(id, name, domain) ==
    [id |-> id, name |-> name, enabled |-> TRUE, domain |-> domain,
     urlPattern |-> <<>>, eventNamePath |-> NoPath, batchPath |-> NoPath,
     fieldMappings |-> <<>>, createdBy |-> "user"]

\* further lists: one naming an id twice, one with a host as the domain,
\* and the empty list
RegistrySyncs ==
    << << UserSource("example", "Example", D_example_com),
          UserSource("example", "Example again", D_reddit_com) >>,
       << UserSource("segment-api", "Segment API", D_api_segment_io) >>,
       << >> >>

SyncLists == TrafficSyncs \o RegistrySyncs

\* a JSON array that holds a source and then null
NullTailList == << UserSource("example", "Example", D_example_com), JNull >>

\* body 0 is not JSON; body k > 0 is the JSON array SyncLists[k], and the
\* one after the last of them the array NullTailList
SyncBodies == 0..Len(TrafficSyncs)
RegistryBodies == 0..(Len(SyncLists) + 1)
PostedBody(b) == IF b <= Len(SyncLists) THEN SyncLists[b] ELSE NullTailList

\* json.Decode into []config.Source: null leaves the element a zero Source
ZeroSource == Source("", "", FALSE, <<>>, <<>>, NoPath, NoPath)
decodeSources(list) ==
    [i \in 1..Len(list) |-> IF IsNull(list[i]) THEN ZeroSource ELSE list[i]]

\* sources.forEach(sourceData => ... sourceData.id ...): the elements set
\* before a null element throws the TypeError, all of them when none is null
BeforeThrow(list) ==
    IF \E i \in 1..Len(list) : IsNull(list[i])
    THEN SubSeq(list, 1, (CHOOSE i \in 1..Len(list) :
                            IsNull(list[i]) /\ \A j \in 1..(i - 1) : ~IsNull(list[j])) - 1)
    ELSE list

NoSource == [id |-> ""]
Idle == [pc |-> "idle", req |-> 0, src |-> NoSource, events |-> <<>>,
         delivered |-> <<>>, detached |-> FALSE]

\* what the client got onto the wire before the body ended or broke off
Received(hd) == SubSeq(Requests[hd.req].body, 1, Requests[hd.req].sent)
InFlight(hd) == hd.pc \notin {"idle", "done"}

\* a new request is served by the first handler that is free
FreeHandler(h) ==
    /\ ~InFlight(handlers[h])
    /\ h = "h1" \/ InFlight(handlers["h1"])

\* an append that never evicts
appendNoEvict(buf, event) == Append(buf, event)

\* server.go: capturedEvents = append(capturedEvents, event), then drop the
\* head while over MaxEvents
appendEvent(buf, event) ==
    LET b == Append(buf, event) IN IF Len(b) > MaxEvents THEN Tail(b) ELSE b

\* proxy-server-mitm.js: capturedEvents.unshift(captured), then truncate
unshiftEvent(buf, captured) ==
    LET b == <<captured>> \o buf IN IF Len(b) > MaxEvents THEN SubSeq(b, 1, MaxEvents) ELSE b

\* a store that gives up the lock after the first event of the batch
storeFirst(buf, events, i) ==
    IF Len(events) = 0 THEN buf ELSE appendEvent(buf, events[1])

\* eventsMu.Lock(), the loop over the events, eventsMu.Unlock(); and the
\* forEach of onRequestEnd, which no other callback interrupts
RECURSIVE StoreAll(_, _, _)
StoreAll(buf, events, i) ==
    IF i > Len(events) THEN buf
    ELSE StoreAll(IF pImpl = "go" THEN appendEvent(buf, events[i])
                                  ELSE unshiftEvent(buf, events[i]), events, i + 1)

\* trackUnmatchedRequest(url, payload) on the Map entries (domain and count
\* of each entry; its example url, payload and clock readings are left out)
findSourceByDomain(srcs, domain) ==
    \E i \in 1..Len(srcs) : ToLower(srcs[i].domain) = ToLower(domain)

trackUnmatchedRequest(entries, srcs, u) ==
    LET domain == JsExtractBaseDomainFromUrl(u)
    IN  IF ~looksLikeAnalyticsEndpoint(u) \/ domain = <<>> \/ findSourceByDomain(srcs, domain)
        THEN entries
        ELSE IF \E i \in 1..Len(entries) : entries[i].domain = domain
        THEN [i \in 1..Len(entries) |->
                 IF entries[i].domain = domain
                 THEN [entries[i] EXCEPT !.count = @ + 1] ELSE entries[i]]
        ELSE Append(entries, [domain |-> domain, count |-> 1])

RECURSIVE InsertByCount(_, _)
InsertByCount(sorted, e) ==
    IF sorted = <<>> THEN <<e>>
    ELSE IF sorted[Len(sorted)].count >= e.count THEN Append(sorted, e)
    ELSE Append(InsertByCount(SubSeq(sorted, 1, Len(sorted) - 1), e), sorted[Len(sorted)])

RECURSIVE SortFrom(_, _, _)
SortFrom(entries, i, acc) ==
    IF i > Len(entries) THEN acc ELSE SortFrom(entries, i + 1, InsertByCount(acc, entries[i]))

\* getUnmatchedDomains(): entries by count, largest first (stable)
getUnmatchedDomains(entries) == SortFrom(entries, 1, <<>>)

\* ConfigManagerNode.save(): the ids of the user-created sources
save(srcs) ==
    LET users == SelectSeq(srcs, LAMBDA x : x.createdBy = "user")
    IN  [i \in 1..Len(users) |-> users[i].id]

\* a response whose count is read from the live buffer, not the snapshot
EventsResponseLive(events, unmatched) ==
    [events |-> events, count |-> Len(capturedEvents), unmatchedDomains |-> unmatched]

\* the body of a GET /events response
EventsResponse(events, unmatched) ==
    [events |-> events, count |-> Len(events), unmatchedDomains |-> unmatched]
NoResponse == [events |-> <<>>, count |-> -1, unmatchedDomains |-> <<>>]

NoUnmatched == IF pImpl = "go" THEN EmptyMap ELSE <<>>

\* the proxy at rest, for the specifications that do not run it
ProxyIdle ==
    /\ pImpl = "go" /\ sources = <<>> /\ capturedEvents = <<>> /\ unmatchedDomains = <<>>
    /\ configFile = <<>> /\ handlers = <<>> /\ evq = <<>> /\ clr = <<>> /\ sync = <<>>
    /\ srcResp = <<>> /\ opsLeft = 0

ProxyStart ==
    /\ pImpl \in {"go", "js"}
    /\ sources = IF pImpl = "go" THEN GetDefaultSources ELSE JsLoad(DEFAULT_SOURCES)
    /\ capturedEvents = <<>>
    /\ unmatchedDomains = NoUnmatched
    /\ configFile = <<>>
    /\ handlers = [h \in Handlers |-> Idle]
    /\ evq = [pc |-> "idle", events |-> <<>>, seen |-> {}, resp |-> NoResponse, quiet |-> FALSE]
    /\ clr = [pc |-> "idle", quiet |-> FALSE]
    /\ sync = [status |-> 0, synced |-> FALSE, list |-> <<>>]
    /\ srcResp = [status |-> 0, sources |-> <<>>]
    /\ opsLeft = MaxOps


\* a proxied request arrives: nothing cleared earlier is known to stay empty
Started(h, hd) ==
    /\ handlers' = [handlers EXCEPT ![h] = hd]
    /\ opsLeft' = opsLeft - 1
    /\ clr' = [clr EXCEPT !.quiet = FALSE]
    /\ evq' = [evq EXCEPT !.quiet = FALSE]

\* a GET /events in progress sees the buffer change
Observed(e, buf) == IF e.pc = "snap" THEN [e EXCEPT !.seen = @ \cup {buf}] ELSE e

\* ---- loggy-proxy: handleRequest

\* findMatchingSource under sourcesMu.RLock
GoBegin(h, r) ==
    /\ pImpl = "go" /\ opsLeft > 0 /\ FreeHandler(h)
    /\ LET i == findMatchingSource(sources, Requests[r].url)
       IN  Started(h, [Idle EXCEPT !.pc = IF i = 0 THEN "track" ELSE "read",
                                   !.req = r,
                                   !.src = IF i = 0 THEN NoSource ELSE sources[i]])
    /\ UNCHANGED <<pImpl, sources, capturedEvents, unmatchedDomains, configFile, sync,
                   srcResp, matchVars, hostVars, restVars>>

\* trackUnmatchedDomain(req.Host); the body is left to the transport
GoTrack(h) ==
    /\ pImpl = "go" /\ handlers[h].pc = "track"
    /\ LET host == trackedHost(Requests[handlers[h].req].url.host)
       IN  unmatchedDomains' = IF host \in skipDomains THEN unmatchedDomains
                               ELSE Bump(unmatchedDomains, host)
    /\ handlers' = [handlers EXCEPT ![h].pc = "done", ![h].delivered = Received(handlers[h])]
    /\ UNCHANGED <<pImpl, sources, capturedEvents, configFile, evq, clr, sync, srcResp,
                   opsLeft, matchVars, hostVars, restVars>>

\* io.ReadAll(req.Body): on an error return with the body consumed; else
\* restore the body, decompress a copy and parse it
GoRead(h) ==
    /\ pImpl = "go" /\ handlers[h].pc = "read"
    /\ LET hd == handlers[h]
           req == Requests[hd.req]
       IN  handlers' = [handlers EXCEPT ![h] =
              IF req.sent < Len(req.body)
              THEN [hd EXCEPT !.pc = "done", !.delivered = <<>>]
              ELSE IF Len(req.body) = 0
              THEN [hd EXCEPT !.pc = "done", !.delivered = req.body]
              ELSE [hd EXCEPT !.pc = "append", !.delivered = req.body,
                              !.events = parsePayload(decompress(req.body, req.encoding),
                                                      hd.src, req.url)]]
    /\ UNCHANGED <<pImpl, sources, capturedEvents, unmatchedDomains, configFile, evq, clr,
                   sync, srcResp, opsLeft, matchVars, hostVars, restVars>>

\* eventsMu.Lock(); append every event; eventsMu.Unlock()
GoAppend(h) ==
    /\ pImpl = "go" /\ handlers[h].pc = "append"
    /\ capturedEvents' = StoreAll(capturedEvents, handlers[h].events, 1)
    /\ handlers' = [handlers EXCEPT ![h].pc = "done"]
    /\ evq' = Observed(evq, capturedEvents')
    /\ UNCHANGED <<pImpl, sources, unmatchedDomains, configFile, clr, sync, srcResp,
                   opsLeft, matchVars, hostVars, restVars>>

\* ---- proxy-server-mitm.js: proxy.onRequest

\* findSourceForUrl, then the data/end callbacks are registered for a POST
\* with a source or to an analytics-looking path; every chunk is passed on
JsBegin(h, r) ==
    /\ pImpl = "js" /\ opsLeft > 0 /\ FreeHandler(h)
    /\ LET i == findSourceForUrl(sources, Requests[r].url)
           post == Requests[r].method = "POST"
           hd == [Idle EXCEPT !.req = r]
       IN  Started(h, [hd EXCEPT
              !.pc = IF post /\ i # 0 THEN "capture"
                     ELSE IF post /\ looksLikeAnalyticsEndpoint(Requests[r].url)
                     THEN "unmatched" ELSE "done",
              !.src = IF post /\ i # 0 THEN sources[i] ELSE NoSource,
              !.delivered = Received(hd)])
    /\ UNCHANGED <<pImpl, sources, capturedEvents, unmatchedDomains, configFile, sync,
                   srcResp, matchVars, hostVars, restVars>>

decompressBody(bodyBuffer, encoding) == decompress(bodyBuffer, encoding)

\* source.recordCapture() on the object the handler holds: seen in the
\* registry only while the Map still holds that object
recordCapture(srcs, hd) ==
    [i \in 1..Len(srcs) |->
        IF srcs[i].id = hd.src.id /\ ~hd.detached
        THEN [srcs[i] EXCEPT !.eventsCapture = @ + 1] ELSE srcs[i]]

\* onRequestEnd of a captured request (never called when the client broke off)
JsCaptureEnd(h) ==
    /\ pImpl = "js" /\ handlers[h].pc = "capture"
    /\ LET hd == handlers[h]
           req == Requests[hd.req]
           data == JsonDecode(decompressBody(req.body, req.encoding))
           parsed == IF data.ok THEN parseEventFromSource(hd.src, data.val, req.url)
                     ELSE Failed
           ok == req.sent = Len(req.body) /\ parsed.ok
           events == IF ok THEN parsed.val ELSE <<>>
       IN  /\ capturedEvents' = StoreAll(capturedEvents, events, 1)
           /\ sources' = IF Len(events) > 0 THEN recordCapture(sources, hd) ELSE sources
           /\ configFile' = IF Len(events) > 0 THEN save(sources') ELSE configFile
           /\ handlers' = [handlers EXCEPT ![h].pc = "done", ![h].events = events]
    /\ evq' = Observed(evq, capturedEvents')
    /\ UNCHANGED <<pImpl, unmatchedDomains, clr, sync, srcResp, opsLeft, matchVars, hostVars, restVars>>

\* onRequestEnd of an unmatched POST to an analytics-looking path
JsUnmatchedEnd(h) ==
    /\ pImpl = "js" /\ handlers[h].pc = "unmatched"
    /\ LET hd == handlers[h]
           req == Requests[hd.req]
           data == JsonDecode(decompressBody(req.body, req.encoding))
       IN  unmatchedDomains' = IF req.sent = Len(req.body) /\ data.ok
                               THEN trackUnmatchedRequest(unmatchedDomains, sources, req.url)
                               ELSE unmatchedDomains
    /\ handlers' = [handlers EXCEPT ![h].pc = "done"]
    /\ UNCHANGED <<pImpl, sources, capturedEvents, configFile, evq, clr, sync, srcResp,
                   opsLeft, matchVars, hostVars, restVars>>


\* ---- control API, loggy-proxy (parser.go)

\* handleEvents: copy the buffer under eventsMu.RLock
GoEventsSnapshot ==
    /\ pImpl = "go" /\ evq.pc \in {"idle", "done"} /\ opsLeft > 0
    /\ opsLeft' = opsLeft - 1
    /\ evq' = [pc |-> "snap", events |-> capturedEvents, seen |-> {capturedEvents},
               resp |-> NoResponse, quiet |-> clr.pc = "done" /\ clr.quiet]
    /\ UNCHANGED <<pImpl, sources, capturedEvents, unmatchedDomains, configFile, handlers,
                   clr, sync, srcResp, matchVars, hostVars, restVars>>

\* handleEvents: copy the map under unmatchedMu.RLock and encode the response
GoEventsRespond ==
    /\ pImpl = "go" /\ evq.pc = "snap"
    /\ evq' = [evq EXCEPT !.pc = "done", !.resp = EventsResponse(evq.events, unmatchedDomains)]
    /\ UNCHANGED <<pImpl, sources, capturedEvents, unmatchedDomains, configFile, handlers,
                   clr, sync, srcResp, opsLeft, matchVars, hostVars, restVars>>

\* handleClear: capturedEvents = nil under eventsMu
GoClearEvents ==
    /\ pImpl = "go" /\ clr.pc \in {"idle", "done"} /\ opsLeft > 0
    /\ opsLeft' = opsLeft - 1
    /\ capturedEvents' = <<>>
    /\ clr' = [pc |-> "events", quiet |-> \A h \in Handlers : ~InFlight(handlers[h])]
    /\ evq' = Observed(evq, capturedEvents')
    /\ UNCHANGED <<pImpl, sources, unmatchedDomains, configFile, handlers, sync, srcResp,
                   matchVars, hostVars, restVars>>

\* handleClear: a fresh map under unmatchedMu, then {success: true}
GoClearUnmatched ==
    /\ pImpl = "go" /\ clr.pc = "events"
    /\ unmatchedDomains' = EmptyMap
    /\ clr' = [clr EXCEPT !.pc = "done"]
    /\ UNCHANGED <<pImpl, sources, capturedEvents, configFile, handlers, evq, sync, srcResp,
                   opsLeft, matchVars, hostVars, restVars>>

\* handleSources, POST: decode into []config.Source, 400 on a decode error,
\* else replace the registry under sourcesMu
GoPostSources(b) ==
    /\ pImpl = "go" /\ opsLeft > 0
    /\ opsLeft' = opsLeft - 1
    /\ IF b = 0
       THEN /\ sync' = [sync EXCEPT !.status = 400]
            /\ UNCHANGED <<sources, srcResp>>
       ELSE /\ sources' = decodeSources(PostedBody(b))
            /\ sync' = [status |-> 200, synced |-> TRUE, list |-> sources']
            /\ srcResp' = [status |-> 0, sources |-> <<>>]
    /\ UNCHANGED <<pImpl, capturedEvents, unmatchedDomains, configFile, handlers, evq, clr,
                   matchVars, hostVars, restVars>>

\* handleSources, GET: the registry under sourcesMu.RLock
GoGetSources ==
    /\ pImpl = "go" /\ opsLeft > 0
    /\ opsLeft' = opsLeft - 1
    /\ srcResp' = [status |-> 200, sources |-> sources]
    /\ UNCHANGED <<pImpl, sources, capturedEvents, unmatchedDomains, configFile, handlers,
                   evq, clr, sync, matchVars, hostVars, restVars>>

\* ---- control API, proxy-server-mitm.js (apiServer)

JsGetEvents ==
    /\ pImpl = "js" /\ opsLeft > 0
    /\ opsLeft' = opsLeft - 1
    /\ evq' = [pc |-> "done", events |-> <<>>, seen |-> {capturedEvents},
               resp |-> EventsResponse(capturedEvents, getUnmatchedDomains(unmatchedDomains)),
               quiet |-> clr.pc = "done" /\ clr.quiet]
    /\ UNCHANGED <<pImpl, sources, capturedEvents, unmatchedDomains, configFile, handlers,
                   clr, sync, srcResp, matchVars, hostVars, restVars>>

\* capturedEvents.length = 0, then {success: true}
JsClear ==
    /\ pImpl = "js" /\ opsLeft > 0
    /\ opsLeft' = opsLeft - 1
    /\ capturedEvents' = <<>>
    /\ clr' = [pc |-> "done", quiet |-> \A h \in Handlers : ~InFlight(handlers[h])]
    /\ UNCHANGED <<pImpl, sources, unmatchedDomains, configFile, handlers, evq, sync,
                   srcResp, matchVars, hostVars, restVars>>

RECURSIVE setAll(_, _, _)
\* configManager.sources.set(id, new SourceConfig(id, data)) for each posted
\* source: an id already in the Map keeps its place
setAll(srcs, list, i) ==
    IF i > Len(list) THEN srcs
    ELSE LET source == SourceConfig(list[i].id, list[i])
         IN  setAll(IF \E k \in 1..Len(srcs) : srcs[k].id = source.id
                    THEN [k \in 1..Len(srcs) |->
                             IF srcs[k].id = source.id THEN source ELSE srcs[k]]
                    ELSE Append(srcs, source), list, i + 1)

JsPostSources(b) ==
    /\ pImpl = "js" /\ opsLeft > 0
    /\ opsLeft' = opsLeft - 1
    /\ IF b = 0
       THEN /\ sync' = [sync EXCEPT !.status = 400]
            /\ UNCHANGED <<sources, srcResp, handlers>>
       ELSE LET posted == BeforeThrow(PostedBody(b))
            IN
            /\ sources' = setAll(sources, posted, 1)
            /\ sync' = IF posted = PostedBody(b)
                       THEN [status |-> 200, synced |-> TRUE, list |-> posted]
                       ELSE [sync EXCEPT !.status = 400]
            /\ srcResp' = IF posted = PostedBody(b) THEN [status |-> 0, sources |-> <<>>]
                                                    ELSE srcResp
            /\ handlers' = [h \in Handlers |->
                  IF /\ handlers[h].pc = "capture"
                     /\ \E i \in 1..Len(posted) : posted[i].id = handlers[h].src.id
                  THEN [handlers[h] EXCEPT !.detached = TRUE] ELSE handlers[h]]
    /\ UNCHANGED <<pImpl, capturedEvents, unmatchedDomains, configFile, evq, clr, matchVars, hostVars, restVars>>

JsGetSources ==
    /\ pImpl = "js" /\ opsLeft > 0
    /\ opsLeft' = opsLeft - 1
    /\ srcResp' = [status |-> 200, sources |-> sources]
    /\ UNCHANGED <<pImpl, sources, capturedEvents, unmatchedDomains, configFile, handlers,
                   evq, clr, sync, matchVars, hostVars, restVars>>

ProxyNext ==
    \/ \E h \in Handlers, r \in 1..Len(Traffic) : GoBegin(h, r) \/ JsBegin(h, r)
    \/ \E h \in Handlers :
          GoTrack(h) \/ GoRead(h) \/ GoAppend(h) \/ JsCaptureEnd(h) \/ JsUnmatchedEnd(h)
    \/ GoEventsSnapshot \/ GoEventsRespond \/ GoClearEvents \/ GoClearUnmatched
    \/ GoGetSources \/ JsGetEvents \/ JsClear \/ JsGetSources
    \/ \E b \in SyncBodies : GoPostSources(b) \/ JsPostSources(b)

\* ---- proxied requests while clients post source lists

SyncNext ==
    \/ \E h \in Handlers, r \in 1..Len(Traffic) : GoBegin(h, r) \/ JsBegin(h, r)
    \/ \E h \in Handlers :
          GoTrack(h) \/ GoRead(h) \/ GoAppend(h) \/ JsCaptureEnd(h) \/ JsUnmatchedEnd(h)
    \/ \E b \in RegistryBodies : GoPostSources(b) \/ JsPostSources(b)

\* ---- one request through the proxy, and a GET /events

ParseOps == 2        \* one posted payload and one GET /events

\* a list a client has synced to the proxy with POST /sources: a source
\* with the legacy eventNamePath and a batchPath, and one with a field mapping
ParseRegistry ==
    << Source("custom", "Custom", TRUE, D_example_com, <<>>, JP_label, JP_events),
       [Source("reddit", "Reddit", TRUE, D_reddit_com, <<>>, NoPath, NoPath)
          EXCEPT !.fieldMappings = [eventName |-> JP_label]] >>

ParseStart ==
    /\ pImpl \in {"go", "js"}
    /\ sources = IF pImpl = "go" THEN ParseRegistry
                                 ELSE setAll(JsLoad(DEFAULT_SOURCES), ParseRegistry, 1)
    /\ capturedEvents = <<>>
    /\ unmatchedDomains = NoUnmatched
    /\ configFile = <<>>
    /\ handlers = [h \in Handlers |-> Idle]
    /\ evq = [pc |-> "idle", events |-> <<>>, seen |-> {}, resp |-> NoResponse, quiet |-> FALSE]
    /\ clr = [pc |-> "idle", quiet |-> FALSE]
    /\ sync = [status |-> 0, synced |-> FALSE, list |-> <<>>]
    /\ srcResp = [status |-> 0, sources |-> <<>>]
    /\ opsLeft = ParseOps

ParseNext ==
    \/ \E r \in (Len(Traffic) + 1)..Len(Requests) :
          handlers["h1"] = Idle /\ (GoBegin("h1", r) \/ JsBegin("h1", r))
    \/ GoTrack("h1") \/ GoRead("h1") \/ GoAppend("h1")
    \/ JsCaptureEnd("h1") \/ JsUnmatchedEnd("h1")
    \/ GoEventsSnapshot \/ GoEventsRespond \/ JsGetEvents


\* ---- the registry under its operations: POST /sources on either proxy,
\* ConfigManagerNode.addSource, and the extension's ConfigManager
\* (config/config-manager.js)

RegistryOps == 3     \* registry operations per behaviour

\* Map.prototype.set(source.id, source): an id already in the Map keeps its place
setSource(srcs, source) ==
    IF \E k \in 1..Len(srcs) : srcs[k].id = source.id
    THEN [k \in 1..Len(srcs) |-> IF srcs[k].id = source.id THEN source ELSE srcs[k]]
    ELSE Append(srcs, source)

\* unmatchedDomains.delete(domain)
deleteUnmatched(entries, domain) == SelectSeq(entries, LAMBDA e : e.domain # domain)

\* clearUnmatchedDomain(domain): one entry, or all of them for a falsy domain
clearUnmatchedDomain(entries, domain) ==
    IF domain # <<>> THEN deleteUnmatched(entries, domain) ELSE <<>>

\* isModified(id, source): toJSON() holds an id, which no default holds
isModified(id) == \E i \in 1..Len(DEFAULT_SOURCES) : DEFAULT_SOURCES[i].id = id

\* ConfigManager.save(): the ids written to chrome.storage
extSave(srcs) ==
    LET kept == SelectSeq(srcs, LAMBDA x : x.createdBy = "user" \/ isModified(x.id))
    IN  [i \in 1..Len(kept) |-> kept[i].id]

RECURSIVE importAll(_, _, _)
\* import(json): sources.set(source.id, source) for each config
importAll(srcs, configs, i) ==
    IF i > Len(configs) THEN srcs
    ELSE importAll(setSource(srcs, SourceConfig(configs[i].id, configs[i])), configs, i + 1)

\* what a user adds, updates or imports
RegistryConfigs ==
    { UserSource("segment", "Segment", D_segment_io),
      UserSource("example", "Example", D_example_com),
      UserSource("segment-api", "Segment API", D_api_segment_io),
      UserSource("blank", "Blank", <<>>),
      Source("reddit", "Reddit", FALSE, D_reddit_com, <<>>, NoPath, NoPath) }
RegistryIds == {"segment", "example", "pie", "nosuch"}
RegistryUrls ==
    { Url("https", D_api_segment_io, U_v1_batch, <<>>),
      Url("https", D_example_com, U_api_v1_track, <<>>),
      Url("https", D_example_com, U_index, <<>>) }

RegistryStart ==
    /\ pImpl \in {"go", "js", "ext"}
    /\ sources = IF pImpl = "go" THEN GetDefaultSources ELSE JsLoad(DEFAULT_SOURCES)
    /\ capturedEvents = <<>>
    /\ unmatchedDomains = NoUnmatched
    /\ configFile = <<>>
    /\ handlers = [h \in Handlers |-> Idle]
    /\ evq = [pc |-> "idle", events |-> <<>>, seen |-> {}, resp |-> NoResponse, quiet |-> FALSE]
    /\ clr = [pc |-> "idle", quiet |-> FALSE]
    /\ sync = [status |-> 0, synced |-> FALSE, list |-> <<>>]
    /\ srcResp = [status |-> 0, sources |-> <<>>]
    /\ opsLeft = RegistryOps

RegistryStep ==
    /\ opsLeft > 0
    /\ opsLeft' = opsLeft - 1
    /\ UNCHANGED <<pImpl, capturedEvents, handlers, evq, clr, sync, srcResp, matchVars,
                   hostVars, restVars>>

\* ConfigManagerNode.addSource(source)
JsAddSource(c) ==
    /\ pImpl = "js" /\ RegistryStep
    /\ sources' = setSource(sources, SourceConfig(c.id, c))
    /\ unmatchedDomains' = IF c.domain # <<>> THEN deleteUnmatched(unmatchedDomains, c.domain)
                                              ELSE unmatchedDomains
    /\ configFile' = save(sources')

\* ConfigManager.addSource(SourceConfig.fromJSON(message.source)): the
\* addSource and updateSource messages
ExtAddSource(c) ==
    /\ pImpl = "ext" /\ RegistryStep
    /\ sources' = setSource(sources, SourceConfig(c.id, c))
    /\ unmatchedDomains' = clearUnmatchedDomain(unmatchedDomains, c.domain)
    /\ configFile' = extSave(sources')

\* ConfigManager.removeSource(id)
ExtRemoveSource(id) ==
    /\ pImpl = "ext" /\ RegistryStep
    /\ sources' = SelectSeq(sources, LAMBDA x : x.id # id)
    /\ configFile' = IF id \in {sources[i].id : i \in 1..Len(sources)}
                      THEN extSave(sources') ELSE configFile
    /\ UNCHANGED unmatchedDomains

\* ConfigManager.import(json), json an array of configs
ExtImport(configs) ==
    /\ pImpl = "ext" /\ RegistryStep
    /\ sources' = importAll(sources, configs, 1)
    /\ configFile' = extSave(sources')
    /\ UNCHANGED unmatchedDomains

\* ConfigManager.resetToDefaults()
ExtResetToDefaults ==
    /\ pImpl = "ext" /\ RegistryStep
    /\ sources' = JsLoad(DEFAULT_SOURCES)
    /\ configFile' = <<>>
    /\ UNCHANGED unmatchedDomains

\* ConfigManager.trackUnmatchedRequest(url, payload)
ExtTrack(u) ==
    /\ pImpl = "ext" /\ RegistryStep
    /\ unmatchedDomains' = trackUnmatchedRequest(unmatchedDomains, sources, u)
    /\ UNCHANGED <<sources, configFile>>

\* ConfigManagerNode.trackUnmatchedRequest(url, payload)
JsTrack(u) ==
    /\ pImpl = "js" /\ RegistryStep
    /\ unmatchedDomains' = trackUnmatchedRequest(unmatchedDomains, sources, u)
    /\ UNCHANGED <<sources, configFile>>

RegistryNext ==
    \/ \E b \in RegistryBodies : GoPostSources(b) \/ JsPostSources(b)
    \/ GoGetSources \/ JsGetSources
    \/ \E c \in RegistryConfigs : JsAddSource(c) \/ ExtAddSource(c)
    \/ \E id \in RegistryIds : ExtRemoveSource(id)
    \/ \E k \in 1..Len(SyncLists) : ExtImport(SyncLists[k])
    \/ ExtResetToDefaults
    \/ \E u \in RegistryUrls : JsTrack(u) \/ ExtTrack(u)


----------------------------------------------------------------------------
(* The native-messaging host (nativehost/host.go, handlers.go) and the     *)
(* proxy child process it starts and stops                                 *)

MaxFrames == 3       \* frames read from stdin per behaviour
MaxStarts == 2       \* children spawned per behaviour

\* a proxy left running by an earlier host process has this pid
OldPid == MaxStarts + 1
Pids == 1..OldPid

Response(success, error, running, pid) ==
    [success |-> success, error |-> error, running |-> running, pid |-> pid]

Alive(p) == p \in Pids /\ children[p] \in {"starting", "serving"}

\* isPortInUse(8888): lsof lists a process on the port
isPortInUse == portHolder # 0

\* getProxyPID(): 0 when the file is missing
getProxyPID == pidFile

\* isProcessRunning(pid): signal 0 is delivered
isProcessRunning(pid) == Alive(pid)

handlePing == Response(TRUE, "", FALSE, 0)

handleGetStatus ==
    LET pid == getProxyPID
    IN  Response(TRUE, "", pid # 0 /\ isProcessRunning(pid), pid)

\* a frame that never becomes a response of its own
sendNothing(out, k, resp) == out

\* writeMessage(os.Stdout, response): one frame, for request k
writeMessage(out, k, resp) == Append(out, [req |-> k, resp |-> resp])

\* what stdin may hold next: a complete frame with one of the actions, with
\* another action ("other") or with none ("noAction"), a complete frame
\* that is not a JSON message, a frame cut short after its
\* length prefix ("headerOnly") or inside it or its payload ("truncated"),
\* or the end of the stream
FrameKinds == {"ping", "startProxy", "stopProxy", "getStatus", "other", "noAction", "invalid",
               "truncated", "headerOnly", "eof"}
Complete(kind) == kind \notin {"truncated", "headerOnly", "eof"}

Spawned == Cardinality({p \in 1..MaxStarts : children[p] # "none"})

\* msg.Action of a frame that names none of the four actions
ActionOf(kind) == IF kind = "noAction" THEN "" ELSE "restart"

\* an unknown action answered as a success
handleAsPing(action) == Response(TRUE, "", FALSE, 0)

\* handleMessage, default branch
handleDefault(action) == Response(FALSE, "Unknown action: " \o action, FALSE, 0)

\* a loop that reads again after io.EOF instead of returning
retryOnReadError(err) == IF err = "EOF" THEN "read" ELSE "write"

\* Run, when readMessage returns an error: return on io.EOF, else send
\* "Failed to read message" and continue
onReadError(err) == IF err = "EOF" THEN "exit" ELSE "write"

\* the loop reads a frame, and handleMessage runs up to its first sleep
HostRead(kind) ==
    /\ hostPc = "read"
    /\ Len(frames) < MaxFrames \/ kind = "eof"
    /\ Len(frames) > 0 /\ ~Complete(frames[Len(frames)]) => kind = "eof"
    /\ kind = "startProxy" => Spawned < MaxStarts
    /\ frames' = IF kind = "eof" THEN frames ELSE Append(frames, kind)
    /\ CASE kind \in {"eof", "headerOnly"} ->
              \* binary.Read or io.ReadFull read nothing: io.EOF
              /\ hostPc' = onReadError("EOF")
              /\ UNCHANGED <<hostResp, pidFile, termed>>
         [] kind = "truncated" ->
              /\ hostResp' = Response(FALSE, "Failed to read message", FALSE, 0)
              /\ hostPc' = onReadError("ErrUnexpectedEOF")
              /\ UNCHANGED <<pidFile, termed>>
         [] kind = "invalid" ->
              /\ hostResp' = Response(FALSE, "Failed to read message", FALSE, 0)
              /\ hostPc' = onReadError("SyntaxError")
              /\ UNCHANGED <<pidFile, termed>>
         [] kind = "ping" ->
              /\ hostResp' = handlePing
              /\ hostPc' = "write"
              /\ UNCHANGED <<pidFile, termed>>
         [] kind = "getStatus" ->
              /\ hostResp' = handleGetStatus
              /\ hostPc' = "write"
              /\ UNCHANGED <<pidFile, termed>>
         [] kind \in {"other", "noAction"} ->
              /\ hostResp' = handleDefault(ActionOf(kind))
              /\ hostPc' = "write"
              /\ UNCHANGED <<pidFile, termed>>
         [] kind = "startProxy" ->
              \* killProcessOnPort when the port is in use, then sleep
              /\ termed' = IF isPortInUse THEN termed \cup {portHolder} ELSE termed
              /\ hostPc' = "spawn"
              /\ UNCHANGED <<hostResp, pidFile>>
         [] kind = "stopProxy" ->
              LET pid == getProxyPID
              IN  IF pid = 0
                  THEN /\ hostResp' = Response(FALSE, "No proxy PID found", FALSE, 0)
                       /\ hostPc' = "write"
                       /\ UNCHANGED <<pidFile, termed>>
                  ELSE \* SIGTERM ("process already finished" is let pass),
                       \* remove the PID file, then sleep
                       /\ termed' = IF Alive(pid) THEN termed \cup {pid} ELSE termed
                       /\ pidFile' = 0
                       /\ hostPc' = "stopVerify"
                       /\ UNCHANGED hostResp
    /\ UNCHANGED <<output, startPid, children, portHolder, matchVars, proxyVars, restVars>>

\* handleStartProxy: cmd.Start(), write the PID file, then sleep
StartSpawn ==
    /\ hostPc = "spawn"
    /\ LET p == Spawned + 1
       IN  /\ children' = [children EXCEPT ![p] = "starting"]
           /\ startPid' = p
           /\ pidFile' = p
    /\ hostPc' = "verify"
    /\ UNCHANGED <<frames, output, hostResp, termed, portHolder, matchVars, proxyVars, restVars>>

\* handleStartProxy: the port probe decides the response
StartVerify ==
    /\ hostPc = "verify"
    /\ hostResp' = IF ~isPortInUse THEN Response(FALSE, "Proxy failed to start", FALSE, 0)
                                   ELSE Response(TRUE, "", FALSE, startPid)
    /\ hostPc' = "write"
    /\ UNCHANGED <<frames, output, startPid, pidFile, children, termed, portHolder,
                   matchVars, proxyVars, restVars>>

\* handleStopProxy: the port probe decides the response
StopVerify ==
    /\ hostPc = "stopVerify"
    /\ hostResp' = IF isPortInUse THEN Response(FALSE, "Proxy may still be running", FALSE, 0)
                                  ELSE Response(TRUE, "", FALSE, 0)
    /\ hostPc' = "write"
    /\ UNCHANGED <<frames, output, startPid, pidFile, children, termed, portHolder,
                   matchVars, proxyVars, restVars>>

\* the response frame goes to stdout and the loop turns
HostWrite ==
    /\ hostPc = "write"
    /\ output' = writeMessage(output, Len(frames), hostResp)
    /\ hostPc' = "read"
    /\ UNCHANGED <<frames, hostResp, startPid, pidFile, children, termed, portHolder,
                   matchVars, proxyVars, restVars>>

\* proxy.Run in the child: http.ListenAndServe binds the port, or fails and
\* log.Fatalf ends the process
ChildListen(p) ==
    /\ children[p] = "starting"
    /\ IF portHolder = 0
       THEN children' = [children EXCEPT ![p] = "serving"] /\ portHolder' = p
       ELSE children' = [children EXCEPT ![p] = "dead"] /\ UNCHANGED portHolder
    /\ termed' = IF portHolder = 0 THEN termed ELSE termed \ {p}
    /\ UNCHANGED <<frames, output, hostPc, hostResp, startPid, pidFile, matchVars, proxyVars, restVars>>

\* proxy.Run in the child: the signal arrives on sigChan and Run returns
ChildExit(p) ==
    /\ p \in termed /\ Alive(p)
    /\ children' = [children EXCEPT ![p] = "dead"]
    /\ termed' = termed \ {p}
    /\ portHolder' = IF portHolder = p THEN 0 ELSE portHolder
    /\ UNCHANGED <<frames, output, hostPc, hostResp, startPid, pidFile, matchVars, proxyVars, restVars>>

HostNext ==
    \/ \E kind \in FrameKinds : HostRead(kind)
    \/ StartSpawn \/ StartVerify \/ StopVerify \/ HostWrite
    \/ \E p \in Pids : ChildListen(p) \/ ChildExit(p)

\* the host at rest, for the specifications that do not run it
HostIdle ==
    /\ frames = <<>> /\ output = <<>> /\ hostPc = "exit" /\ hostResp = <<>> /\ startPid = 0
    /\ pidFile = 0 /\ children = <<>> /\ termed = {} /\ portHolder = 0

\* a host process starts with no proxy around, or with the proxy an earlier
\* host process started still serving
HostStart ==
    /\ frames = <<>> /\ output = <<>> /\ hostPc = "read"
    /\ hostResp = handlePing /\ startPid = 0 /\ termed = {}
    /\ \E old \in BOOLEAN :
          /\ children = [p \in Pids |-> IF old /\ p = OldPid THEN "serving" ELSE "none"]
          /\ pidFile = IF old THEN OldPid ELSE 0
          /\ portHolder = IF old THEN OldPid ELSE 0

----------------------------------------------------------------------------
(* Properties of the proxy                                                 *)

Reverse(q) == [i \in 1..Len(q) |-> q[Len(q) + 1 - i]]

\* the buffer in order of capture, oldest first
Chrono(buf) == IF pImpl = "go" THEN buf ELSE Reverse(buf)

Done(h) == handlers[h].pc = "done"

BufferBounded ==
    /\ Len(capturedEvents) <= MaxEvents
    /\ Len(evq.events) <= MaxEvents
    /\ Len(evq.resp.events) <= MaxEvents

\* a handler stores its events: what remains is the newest MaxEvents of the
\* old content followed by the new events
FifoStore ==
    \A h \in Handlers :
        handlers[h].pc \in {"append", "capture"} /\ handlers'[h].pc = "done"
        => Chrono(capturedEvents') =
              LastN(Chrono(capturedEvents) \o handlers'[h].events, MaxEvents)

\* C1: in every reachable state the buffer, and every copy of it a reader
\* holds, has at most MaxEvents events; storing into a full buffer evicts
\* exactly the oldest events and keeps all newer ones.
C1_BufferBoundedFifo == [](BufferBounded) /\ [][FifoStore]_vars

\* two handlers have stored more than MaxEvents events into a buffer never
\* cleared, which is full
C1_Witness ==
    /\ clr.pc = "idle"
    /\ Done("h1") /\ Done("h2")
    /\ Len(handlers["h1"].events) + Len(handlers["h2"].events) > MaxEvents
    /\ Len(capturedEvents) = MaxEvents

\* C2: for every inspected request that has been handled, whether or not a
\* source matched and whether or not reading, decompressing or parsing
\* succeeded, the body handed upstream is the body received from the client.
C2_BodyForwardedIntact ==
    \A h \in Handlers : Done(h) => handlers[h].delivered = Received(handlers[h])

\* C3: every GET /events response has count = length of its events array,
\* and that array is the buffer content of one instant during the request.
C3_EventsSnapshot ==
    evq.pc = "done" =>
        /\ evq.resp.count = Len(evq.resp.events)
        /\ evq.resp.events \in evq.seen

\* a response with events, served while the buffer changed
C3_Witness ==
    evq.pc = "done" /\ Cardinality(evq.seen) >= 2 /\ evq.resp.count >= 1

\* the buffer changes only by a clear or by one handler storing all the
\* events of its request at once, behind what the buffer held
StoredWhole ==
    capturedEvents' # capturedEvents
    => \/ capturedEvents' = <<>>
       \/ \E h \in Handlers :
             /\ ~Done(h) /\ handlers'[h].pc = "done"
             /\ Chrono(capturedEvents') =
                   LastN(Chrono(capturedEvents) \o handlers'[h].events, MaxEvents)

\* what GET /events copies, and what it answers, is the buffer of one state
SnapshotWhole ==
    /\ evq'.pc = "snap" /\ evq.pc # "snap" => evq'.events = capturedEvents
    /\ evq'.resp # evq.resp /\ evq'.resp # NoResponse
       => evq'.resp.events = IF pImpl = "go" THEN evq.events ELSE capturedEvents

\* C33: with requests handled concurrently, the events of one request are
\* stored into the buffer together, in consecutive positions with no event
\* of another request between them, and a GET /events snapshot never holds
\* part of a request's events while the rest is still to be stored.
C33_BatchStoredAtomically == [][StoredWhole /\ SnapshotWhole]_vars

\* two requests, one with a batch of two events, were stored while one
\* GET /events, which began on the empty buffer, was being served
C33_Witness ==
    /\ Done("h1") /\ Done("h2")
    /\ handlers["h1"].req # handlers["h2"].req
    /\ Len(handlers["h1"].events) = 2 /\ Len(handlers["h2"].events) >= 1
    /\ evq.pc = "done" /\ <<>> \in evq.seen /\ Cardinality(evq.seen) >= 3

\* what a claim says of a Go captured event
Summary(events) ==
    [i \in 1..Len(events) |->
        [Event |-> events[i].Event, Source |-> events[i].Source, UserID |-> events[i].UserID]]

\* C5: with the seeded registry, the Segment batch POSTed to
\* https://api.segment.io/v1/batch yields exactly two events, Viewed and
\* Clicked, both of source "segment" and user "u1".
C5_SegmentBatchCaptured ==
    \A h \in Handlers :
        pImpl = "go" /\ ~sync.synced /\ Done(h) /\ handlers[h].req = 1
        => Summary(handlers[h].events) =
              << [Event |-> "Viewed", Source |-> "segment", UserID |-> "u1"],
                 [Event |-> "Clicked", Source |-> "segment", UserID |-> "u1"] >>

\* C6: with the seeded registry, the GA Measurement Protocol payload POSTed to
\* https://www.google-analytics.com/mp/collect?measurement_id=G-1 yields one
\* event page_view with properties.page = "/x" of source "google-analytics-mp".
C6_GaMpCaptured ==
    \A h \in Handlers :
        pImpl = "go" /\ ~sync.synced /\ Done(h) /\ handlers[h].req = 2
        => /\ Len(handlers[h].events) = 1
           /\ handlers[h].events[1].Event = "page_view"
           /\ handlers[h].events[1].Properties = JObj([page |-> JStr("/x")])
           /\ handlers[h].events[1].Source = "google-analytics-mp"

\* what identifies a registry: ids, domains and switches, in order
View(srcs) ==
    [i \in 1..Len(srcs) |->
        [id |-> srcs[i].id, domain |-> srcs[i].domain, enabled |-> srcs[i].enabled]]

Ids(srcs) == {srcs[i].id : i \in 1..Len(srcs)}

match(u) ==
    LET i == IF pImpl = "go" THEN findMatchingSource(sources, u)
                             ELSE findSourceForUrl(sources, u)
    IN  IF i = 0 THEN NoSource.id ELSE sources[i].id

\* C8: after a successful POST /sources with list L the registry is exactly
\* L: no URL matches a source outside L, and GET /sources returns L.
C8_FullSync ==
    sync.synced =>
        /\ View(sources) = View(sync.list)
        /\ \A r \in 1..Len(Traffic) : match(Traffic[r].url) \in Ids(sync.list) \cup {NoSource.id}
        /\ srcResp.status = 200 => View(srcResp.sources) = View(sync.list)

\* the lists a registry may be whole: the seeded one and the posted ones
SeedList == IF pImpl = "go" THEN GetDefaultSources ELSE JsLoad(DEFAULT_SOURCES)
PostedLists == {View(decodeSources(PostedBody(b))) : b \in RegistryBodies \ {0}}

\* a handler takes up a request: the source it holds is the first match in
\* the registry as it is in this state
MatchedOnRegistry ==
    \A h \in Handlers :
        ~InFlight(handlers[h]) /\ handlers'[h].req # 0 /\ handlers'[h] # handlers[h]
        => handlers'[h].src.id = match(Requests[handlers'[h].req].url)

\* C34: the registry a URL match reads is the complete list of before a
\* POST /sources or the complete list of after it, never a mixture of the
\* two; and after two concurrent POST /sources the registry is one of the
\* two posted lists.
C34_RegistryNeverMixed ==
    /\ [](View(sources) \in {View(SeedList)} \cup PostedLists)
    /\ [](sync.synced => View(sources) \in PostedLists)
    /\ [][MatchedOnRegistry]_vars

\* C9: once POST /clear has responded with no capture in flight, and until
\* the next request is proxied, the buffer and the unmatched-domain map are
\* empty, and a GET /events served in that time returns count 0, no events
\* and no unmatched domains.
C9_ClearEmptiesBoth ==
    /\ clr.pc = "done" /\ clr.quiet
       => capturedEvents = <<>> /\ DOMAIN unmatchedDomains = {}
    /\ clr.pc = "done" /\ clr.quiet /\ evq.pc = "done" /\ evq.quiet
       => /\ evq.resp.count = 0
          /\ evq.resp.events = <<>>
          /\ DOMAIN evq.resp.unmatchedDomains = {}

\* the request handler h took, and its body once decoded
RequestOf(h) == Requests[handlers[h].req]
Decoded(h) == JsonDecode(decompress(RequestOf(h).body, RequestOf(h).encoding))

\* handler h has extracted the events of its request
Extracted(h) == handlers[h].pc \in {"append", "done"} /\ handlers[h].src # NoSource

\* what the batch path of the matched source resolves to in the payload
BatchOf(h) ==
    IF Decoded(h).ok /\ IsObj(Decoded(h).val) /\ handlers[h].src.batchPath # NoPath
    THEN getNestedValue(Decoded(h).val, handlers[h].src.batchPath)
    ELSE JNull

\* C13: when the batch path of the matched source resolves in the payload to
\* an array of n elements, n >= 0, loggy-proxy extracts exactly n events, the
\* i-th built from the i-th element.
C13_BatchYieldsEachElement ==
    \A h \in Handlers :
        pImpl = "go" /\ Extracted(h) /\ IsArr(BatchOf(h))
        => LET arr == BatchOf(h).arr
               events == handlers[h].events
           IN  /\ Len(events) = Len(arr)
               /\ \A i \in 1..Len(arr) :
                      events[i] = CapturedEvent(arr[i], handlers[h].src, RequestOf(h).url)

\* part can be got from whole by leaving elements out, the rest in order
RECURSIVE IsSubseq(_, _)
IsSubseq(part, whole) ==
    IF part = <<>> THEN TRUE
    ELSE IF whole = <<>> THEN FALSE
    ELSE IF Head(part) = Head(whole) THEN IsSubseq(Tail(part), Tail(whole))
    ELSE IsSubseq(part, Tail(whole))

\* C14: with one request captured into an empty buffer, the buffer, and the
\* events array of a GET /events response, hold events of that request in
\* the order in which they were extracted.
C14_BatchOrderKept ==
    \A h \in Handlers :
        Done(h) /\ handlers[h].events # <<>>
        => /\ IsSubseq(capturedEvents, handlers[h].events)
           /\ evq.pc = "done" => IsSubseq(evq.resp.events, handlers[h].events)

\* the source id a captured event carries
SourceIdOf(e) == IF pImpl = "go" THEN e.Source ELSE e._source

\* handler h stores the events of its request in this step
Stores(h) == ~Done(h) /\ handlers'[h].pc = "done" /\ handlers'[h].events # <<>>

\* C15: at the moment a handler appends its events to the buffer, the
\* registry holds a source with the id each of them carries, whatever
\* POST /sources did while the request was handled.
C15_SourcePresentAtAppend ==
    [][\A h \in Handlers :
          Stores(h) => \A i \in 1..Len(handlers'[h].events) :
                          SourceIdOf(handlers'[h].events[i]) \in Ids(sources)]_vars

\* C16: a request to a matched source whose body is neither JSON nor
\* form-encoded data yields no events, and the buffer, empty before the
\* request, is empty after it.
C16_UnparseableYieldsNothing ==
    \A h \in Handlers :
        /\ Extracted(h)
        /\ ~Decoded(h).ok
        /\ ~ParseQuery(decompress(RequestOf(h).body, RequestOf(h).encoding)).ok
        => /\ handlers[h].events = <<>>
           /\ Done(h) => capturedEvents = <<>>

\* the event name and the user id a captured event carries
NameOf(e) == IF pImpl = "go" THEN JStr(e.Event) ELSE e.event
UserOf(e) == IF pImpl = "go" THEN JStr(e.UserID) ELSE e.userId

\* C17: the form body event=Signup&userId=u2 posted to a URL a source
\* matches yields exactly one event, named "Signup", of user "u2".
C17_FormBodyCaptured ==
    \A h \in Handlers :
        Extracted(h) /\ RequestOf(h).body = B_form
        => /\ Len(handlers[h].events) = 1
           /\ NameOf(handlers[h].events[1]) = JStr("Signup")
           /\ UserOf(handlers[h].events[1]) = JStr("u2")

\* C29: when the decoded payload is itself an array of n event objects,
\* extraction yields n events, the i-th carrying the name of the i-th
\* element, and not one event for the whole payload.
C29_TopLevelArray ==
    \A h \in Handlers :
        /\ Extracted(h) /\ Decoded(h).ok /\ IsArr(Decoded(h).val)
        /\ \A i \in 1..Len(Decoded(h).val.arr) : IsObj(Decoded(h).val.arr[i])
        => LET arr == Decoded(h).val.arr
               events == handlers[h].events
           IN  /\ Len(events) = Len(arr)
               /\ \A i \in 1..Len(arr) : NameOf(events[i]) = arr[i].obj["name"]

\* C18: the base domain of a base domain is that base domain.
C18_BaseIdempotent == Len(bBase) = 2 => bBase[2] = bBase[1]

\* the function has been applied twice to a host under a listed two-label
\* suffix, to an IPv4 literal, to one label, or to a host with capitals
C18_Witness ==
    /\ Len(bBase) = 2
    /\ bHost \in {H_shop_example_co_uk, D_127_0_0_1, H_localhost, H_WWW_Example_com}

\* C27: the base domain of a host (a name or an IPv4 literal, without a
\* port) is its last three labels under co.uk, com.au, co.nz, co.jp or
\* com.br, the host itself for an IPv4 literal, and else its last two
\* labels (letter case apart).
C27_BaseDomainByRule ==
    Len(bBase) >= 1 /\ ":" \notin {bHost[i] : i \in 1..Len(bHost)}
    => ToLower(bBase[1]) = ContractBase(bHost)

\* C19: an EnsureCA that finds both files returns nil, generates nothing
\* and leaves both files as they are; so after the first EnsureCA that
\* returned nil the files stay as that call left them, whatever is called.
C19_EnsureIdempotent ==
    /\ [][(\E fail \in FailPoints : EnsureCA(fail)) /\ Exists(certFile) /\ Exists(keyFile)
           => /\ certFile' = certFile /\ keyFile' = keyFile
              /\ caGen' = caGen /\ caErr' = "nil"]_vars
    /\ [](caFirst # <<>> => <<certFile, keyFile>> = caFirst)

\* EnsureCA generated the pair, and every later call left it alone
C19_Witness ==
    /\ caFirst # <<>> /\ caCalls = MaxCalls /\ caGen >= 1 /\ caErr = "nil"
    /\ caFirst = <<File(caGen, TRUE), File(caGen, TRUE)>>

\* C20: a captured event whose posted timestamp is a number t below 10^10
\* carries the instant t * 1000 ms after the epoch; from 10^10 on the number
\* is taken as milliseconds.
C20_SecondsNormalized ==
    tOut # NoStamp
    => tOut = Iso(IF Less(tStamp, SecondsLimit) THEN Times1000(tStamp) ELSE tStamp)

----------------------------------------------------------------------------
(* Properties of path resolution                                           *)

\* the steps a path expression names: a key, or the index of a [i] suffix
PathSteps(path) ==
    LET at(i) == IF i > 1 /\ path[i - 1] = "[" THEN [idx |-> DigitVal(path[i])]
                                                ELSE [key |-> path[i]]
        named == SelectSeq([i \in 1..Len(path) |-> [tok |-> path[i], step |-> at(i)]],
                           LAMBDA t : t.tok \notin {".", "[", "]"})
    IN  [i \in 1..Len(named) |-> named[i].step]

Miss == [miss |-> TRUE]

\* a key step needs an object holding the key, an index step an array that
\* long; any other step misses
RECURSIVE ContractResolve(_, _, _)
ContractResolve(v, steps, i) ==
    IF i > Len(steps) THEN v
    ELSE IF "key" \in DOMAIN steps[i]
    THEN IF HasKey(v, steps[i].key) THEN ContractResolve(v.obj[steps[i].key], steps, i + 1)
         ELSE Miss
    ELSE IF IsArr(v) /\ steps[i].idx < Len(v.arr)
         THEN ContractResolve(v.arr[steps[i].idx + 1], steps, i + 1)
         ELSE Miss

\* "no value": nil in loggy-proxy, undefined in parsers.js
NoValue(v) == IsNull(v) \/ IsUndef(v)

\* C21: events[0].name against {"events":[{"name":"x"}]} resolves to "x";
\* a path with a step that misses (a key the value does not hold, an index
\* out of range, a step into a value that is no container) resolves to
\* "no value".
C21_PathResolution ==
    rOut # NotResolved
    => /\ rData = Doc_events /\ rPath = JP_events0name => rOut = JStr("x")
       /\ ContractResolve(rData, PathSteps(rPath), 1) = Miss => NoValue(rOut)

\* the source as the client configured it, and the path it names for the
\* event name: field_mappings.event_name, else the legacy event_name_path
Configured(id) == ParseRegistry[CHOOSE k \in 1..Len(ParseRegistry) : ParseRegistry[k].id = id]
EventNamePathOf(c) ==
    IF "eventName" \in DOMAIN c.fieldMappings THEN c.fieldMappings.eventName
    ELSE c.eventNamePath

\* C30: when the matched source names a path for the event name, by a
\* field mapping or by the legacy event_name_path, and the path resolves in
\* the event, the captured event has that value as its name, whatever the
\* probe list would find.
C30_MappedNameWins ==
    \A h \in Handlers :
        Extracted(h) /\ RequestOf(h).body = B_labelled
        => LET path == EventNamePathOf(Configured(handlers[h].src.id))
               value == ContractResolve(LabelledPayload, PathSteps(path), 1)
           IN  path # NoPath /\ value # Miss
               => /\ Len(handlers[h].events) = 1
                  /\ NameOf(handlers[h].events[1]) = value

----------------------------------------------------------------------------
(* Properties of event extraction                                          *)

IsBatchPayload(v) == HasKey(v, "events")

\* the name, user id and anonymous id of an extracted event, as JSON values
\* ("" in a Go string field and null or undefined in JavaScript: no value)
EventNameOf(e) == IF xImpl = "go" THEN JStr(e.Event) ELSE e.event
Given(str) == IF str = "" THEN JNull ELSE JStr(str)
UserIdOf(e) == IF xImpl = "go" THEN Given(e.UserID)
               ELSE IF IsUndef(e.userId) THEN JNull ELSE e.userId
AnonymousIdOf(e) == IF xImpl = "go" THEN Given(e.AnonymousID)
                    ELSE IF IsUndef(e.anonymousId) THEN JNull ELSE e.anonymousId

\* the value of the first key of an ordered list that the object holds
RECURSIVE FirstPresent(_, _, _)
FirstPresent(v, keys, i) ==
    IF i > Len(keys) THEN JNull
    ELSE IF HasKey(v, keys[i]) THEN v.obj[keys[i]]
    ELSE FirstPresent(v, keys, i + 1)

ProbeOrder == <<"event", "eventName", "event_name", "name", "action", "code", "en", "e",
                "a", "type", "t">>

\* C31: with no event-name mapping on the source, the captured event's name
\* is the value of the first key the event holds in the order event,
\* eventName, event_name, name, action, code, en, e, a, type, t, and
\* "unknown" when it holds none of them.
C31_ProbeOrder ==
    xEvents # NotParsed /\ ~IsBatchPayload(xPayload)
    => /\ Len(xEvents[1]) = 1
       /\ EventNameOf(xEvents[1][1]) =
              IF IsNull(FirstPresent(xPayload, ProbeOrder, 1)) THEN JStr("unknown")
              ELSE FirstPresent(xPayload, ProbeOrder, 1)

UserIdKeys == <<"userId", "user_id", "uid">>
AnonymousIdKeys == <<"anonymousId", "anonymous_id", "anonId">>

\* the one event of a drawn batch
ItemOf(payload) == payload.obj["events"].arr[1]

\* C32: an event of a batch that holds none of userId, user_id, uid,
\* anonymousId, anonymous_id, anonId is captured with the user id and the
\* anonymous id the outer payload holds under those keys.
C32_IdsFromOuterPayload ==
    /\ xEvents # NotParsed /\ IsBatchPayload(xPayload)
    /\ DOMAIN ItemOf(xPayload).obj \cap IdKeys = {}
    => /\ Len(xEvents[1]) = 1
       /\ UserIdOf(xEvents[1][1]) = FirstPresent(xPayload, UserIdKeys, 1)
       /\ AnonymousIdOf(xEvents[1][1]) = FirstPresent(xPayload, AnonymousIdKeys, 1)

----------------------------------------------------------------------------
(* Properties of the registry                                              *)

\* C22: whatever operations ran (seed load, add, update, remove, import,
\* POST /sources), no two sources of the registry have the same id.
C22_IdsUnique ==
    \A i, j \in 1..Len(sources) : i # j => sources[i].id # sources[j].id

\* the base-domain function of the implementation that holds the registry
baseOf(domain) == base(IF pImpl = "go" THEN "go" ELSE "js", domain)

\* C23: every source of the registry, the seeded ones included, has a
\* domain the base-domain function leaves as it is.
C23_DomainsNormalized ==
    \A i \in 1..Len(sources) : baseOf(sources[i].domain) = sources[i].domain

\* C37: a POST /sources answered with an error status leaves the registry
\* as it was: no source is added, replaced or removed.
C37_FailedSyncLeavesRegistry ==
    [][sync'.status = 400 /\ sync.status # 400 => sources' = sources]_vars

----------------------------------------------------------------------------
(* Properties of the unmatched-domain map                                  *)

\* the domains the map has an entry for, and the count of a domain (0: none)
DomainsOf(map) ==
    IF pImpl = "go" THEN DOMAIN map ELSE {map[i].domain : i \in 1..Len(map)}
CountOf(map, d) ==
    IF d \notin DomainsOf(map) THEN 0
    ELSE IF pImpl = "go" THEN map[d]
    ELSE (CHOOSE e \in {map[i] : i \in 1..Len(map)} : e.domain = d).count

\* in this step handler h finishes a POST that arrived whole and that no
\* source matched
UnmatchedPostEnds(h) ==
    /\ handlers[h].pc # "done" /\ handlers'[h].pc = "done"
    /\ handlers'[h].src = NoSource
    /\ Requests[handlers'[h].req].method = "POST"
    /\ Requests[handlers'[h].req].sent = Len(Requests[handlers'[h].req].body)

\* the map gains one observation of domain d and nothing else
ObservedOnce(d) ==
    /\ CountOf(unmatchedDomains', d) = CountOf(unmatchedDomains, d) + 1
    /\ \A k \in (DomainsOf(unmatchedDomains) \cup DomainsOf(unmatchedDomains')) \ {d} :
          CountOf(unmatchedDomains', k) = CountOf(unmatchedDomains, k)

\* C25: a POST that no source matches adds one observation of its base
\* domain (count 1 at first, then one more each time) when its path holds
\* one of the analytics substrings, and otherwise changes neither the
\* unmatched-domain map nor the event buffer.
C25_UnmatchedIffHeuristic ==
    [][\A h \in Handlers :
          UnmatchedPostEnds(h)
          => LET u == Requests[handlers'[h].req].url
             IN  IF looksLikeAnalyticsEndpoint(u)
                 THEN ObservedOnce(baseOf(u.host))
                 ELSE /\ unmatchedDomains' = unmatchedDomains
                      /\ capturedEvents' = capturedEvents]_vars

\* the domains of the sources this step brings into the registry
AddedDomains ==
    { sources'[i].domain : i \in { k \in 1..Len(sources') :
          ~\E j \in 1..Len(sources) : /\ sources[j].id = sources'[k].id
                                       /\ sources[j].domain = sources'[k].domain } }

\* C26: once a step has brought a source for domain d into the registry
\* (an add or update, or a POST /sources that introduces it), the
\* unmatched-domain map has no entry for d.
C26_AddClearsUnmatched ==
    [][\A d \in AddedDomains : d \notin DomainsOf(unmatchedDomains')]_vars

----------------------------------------------------------------------------
(* Properties of url_pattern matching                                      *)

\* C28: a path passes a url_pattern exactly when the pattern is absent or
\* matches it with * standing for a run of non-slash characters inside one
\* segment and ** for any run, slashes included (/api/** matches /api/a/b).
C28_GlobByRule ==
    gOut # NotAsked => (gOut[1] <=> (gPattern = <<>> \/ ContractGlob(gPath, gPattern)))

----------------------------------------------------------------------------
(* Properties of the host                                                  *)

\* the loop is between requests and its last two responses answered the
\* consecutive requests a and then b
LastTwo(a, b) ==
    /\ hostPc = "read" /\ Len(output) >= 2
    /\ LET last == output[Len(output)]
           prev == output[Len(output) - 1]
       IN  /\ prev.req + 1 = last.req
           /\ frames[prev.req] = a /\ frames[last.req] = b

\* C7: requests served one at a time: a getStatus straight after a
\* startProxy that answered success reports running = true and the pid the
\* PID file holds; a getStatus straight after a stopProxy reports
\* running = false, and the PID file is absent.
C7_Lifecycle ==
    /\ LastTwo("startProxy", "getStatus") /\ output[Len(output) - 1].resp.success
       => /\ output[Len(output)].resp.running
          /\ pidFile # 0 /\ output[Len(output)].resp.pid = pidFile
    /\ LastTwo("stopProxy", "getStatus")
       => ~output[Len(output)].resp.running /\ pidFile = 0

\* C10: the responses written answer the complete frames read, one each and
\* in the order read; the response to a frame is written before the next
\* frame is read.
C10_OneResponsePerFrame ==
    /\ \A i \in 1..Len(output) : output[i].req \in 1..Len(frames)
    /\ \A i, j \in 1..Len(output) : i < j => output[i].req < output[j].req
    /\ \A k \in 1..Len(frames) :
          Complete(frames[k]) /\ (k < Len(frames) \/ hostPc \in {"read", "exit"})
          => \E i \in 1..Len(output) : output[i].req = k

\* several frames answered, one of them not a JSON message and one a
\* startProxy, whose handler sleeps before it answers
C10_Witness ==
    /\ hostPc = "read" /\ Len(output) >= 2 /\ Len(output) = Len(frames)
    /\ \E k \in 1..Len(frames) : frames[k] = "invalid"
    /\ \E k \in 1..Len(frames) : frames[k] = "startProxy"

\* C11: stdin holds finitely many frames and then ends, at a frame boundary
\* or inside a frame; the loop then returns: in the end Run has left its loop.
C11_LoopReturnsOnEOF == <>(hostPc = "exit")

\* Run returned after a frame cut short, which it answered with one error
C11_Witness ==
    /\ hostPc = "exit" /\ Len(frames) >= 2 /\ frames[Len(frames)] = "truncated"
    /\ output[Len(output)].req = Len(frames)
    /\ output[Len(output)].resp.error = "Failed to read message"

Unknown(kind) == kind \in {"other", "noAction"}

\* C12: reading a frame whose action is none of ping, startProxy, stopProxy,
\* getStatus leaves the PID file, the child processes, the signals sent and
\* the port as they were and prepares a response with success = false and a
\* non-empty error; that response is then written and the loop reads again.
C12_UnknownActionRejected ==
    /\ [][frames' # frames /\ Unknown(frames'[Len(frames')])
           => /\ hostPc' = "write"
              /\ ~hostResp'.success /\ hostResp'.error # ""
              /\ pidFile' = pidFile /\ children' = children
              /\ termed' = termed /\ portHolder' = portHolder /\ startPid' = startPid]_vars
    /\ [][hostPc = "write" /\ Unknown(frames[Len(frames)]) /\ hostPc' # hostPc
           => /\ hostPc' = "read"
              /\ output' = Append(output, [req |-> Len(frames), resp |-> hostResp])
              /\ pidFile' = pidFile]_vars

\* an unknown action was refused while a proxy was serving, and the request
\* after it was served
C12_Witness ==
    /\ hostPc = "read" /\ Len(output) = Len(frames) /\ Len(frames) >= 2
    /\ \E k \in 1..(Len(frames) - 1) :
          /\ Unknown(frames[k]) /\ ~output[k].resp.success
          /\ frames[k + 1] = "getStatus" /\ output[k + 1].resp.success
    /\ pidFile # 0 /\ Alive(pidFile)

\* handleStopProxy has answered that the proxy may still be running
MayStillRun ==
    /\ hostPc = "write" /\ frames[Len(frames)] = "stopProxy"
    /\ hostResp.error = "Proxy may still be running"

\* C24: stopProxy deletes the PID file only after it has verified that the
\* port is free: the file goes in no other step, and it is still there
\* whenever stopProxy answers that the proxy may still be running.
C24_PidFileDeletedAfterVerify ==
    /\ [][pidFile # 0 /\ pidFile' = 0 => hostPc = "stopVerify" /\ ~isPortInUse]_vars
    /\ [](MayStillRun => pidFile # 0)

\* C35: between requests, whatever startProxy and stopProxy requests went
\* before, every child that startProxy spawned and that is still alive is
\* the one the PID file names, so that getStatus reports it and stopProxy
\* reaches it.
C35_LiveChildInPidFile ==
    hostPc = "read" => \A p \in 1..MaxStarts : Alive(p) => pidFile = p

\* C36: a getStatus that follows a startProxy answered with success=false
\* reports running=false.
C36_FailedStartNotRunning ==
    \A k \in 1..(Len(output) - 1) :
        /\ frames[k] = "startProxy" /\ ~output[k].resp.success
        /\ frames[k + 1] = "getStatus"
        => ~output[k + 1].resp.running

\* the domains whose entry a step takes out of the unmatched-domain map
Removed == DomainsOf(unmatchedDomains) \ DomainsOf(unmatchedDomains')

\* C38: adding a source takes out of the unmatched-domain map at most the
\* entry of the source's domain and leaves the entry of every other domain
\* as it was, also when the source's domain is empty.
C38_AddRemovesOwnDomainOnly ==
    [][sources' # sources \/ Removed # {}
       => \E d \in {sources'[i].domain : i \in 1..Len(sources')} \cup {<<>>} :
             /\ Removed \subseteq {d}
             /\ \A k \in DomainsOf(unmatchedDomains) \ {d} :
                   CountOf(unmatchedDomains', k) = CountOf(unmatchedDomains, k)]_vars

----------------------------------------------------------------------------
(* Specifications                                                          *)

MatchInit == MatchStart /\ ProxyIdle /\ HostIdle /\ RestIdle
SpecMatch == MatchInit /\ [][MatchNext]_vars

ProxyInit == ProxyStart /\ MatchIdle /\ HostIdle /\ RestIdle
SpecProxy == ProxyInit /\ [][ProxyNext]_vars

SpecSync == ProxyInit /\ [][SyncNext]_vars

RegistryInit == RegistryStart /\ MatchIdle /\ HostIdle /\ RestIdle
SpecRegistry == RegistryInit /\ [][RegistryNext]_vars

ParseInit == ParseStart /\ MatchIdle /\ HostIdle /\ RestIdle
SpecParse == ParseInit /\ [][ParseNext]_vars

BaseInit == BaseStart /\ CertIdle /\ TimeIdle /\ PathIdle /\ GlobIdle /\ ExtractIdle /\ MatchIdle /\ ProxyIdle /\ HostIdle
SpecBase == BaseInit /\ [][BaseNext]_vars

CertInit == CertStart /\ BaseIdle /\ TimeIdle /\ PathIdle /\ GlobIdle /\ ExtractIdle /\ MatchIdle /\ ProxyIdle /\ HostIdle
SpecCert == CertInit /\ [][CertNext]_vars

PathInit == PathStart /\ BaseIdle /\ CertIdle /\ TimeIdle /\ GlobIdle /\ ExtractIdle /\ MatchIdle /\ ProxyIdle /\ HostIdle
SpecPath == PathInit /\ [][PathNext]_vars

ExtractInit == ExtractStart /\ BaseIdle /\ CertIdle /\ TimeIdle /\ PathIdle /\ GlobIdle /\ MatchIdle /\ ProxyIdle /\ HostIdle
SpecExtract == ExtractInit /\ [][ExtractNext]_vars

GlobInit == GlobStart /\ BaseIdle /\ CertIdle /\ TimeIdle /\ PathIdle /\ ExtractIdle /\ MatchIdle /\ ProxyIdle /\ HostIdle
SpecGlob == GlobInit /\ [][GlobNext]_vars

TimeInit == TimeStart /\ BaseIdle /\ CertIdle /\ PathIdle /\ GlobIdle /\ ExtractIdle /\ MatchIdle /\ ProxyIdle /\ HostIdle
SpecTime == TimeInit /\ [][TimeNext]_vars

HostInit == HostStart /\ MatchIdle /\ ProxyIdle /\ RestIdle
SpecHost == HostInit /\ [][HostNext]_vars

\* the host process is scheduled: a read returns once stdin holds a frame or
\* is at its end, and a sleep in a handler ends
HostStep ==
    \/ \E kind \in FrameKinds : HostRead(kind)
    \/ StartSpawn \/ StartVerify \/ StopVerify \/ HostWrite
SpecHostLive == SpecHost /\ WF_vars(HostStep)

============================================================================
